---- MODULE Spec2Model ----
(***************************************************************************)
(* Verification model of the Gomoku move-selection engines of HvM:         *)
(*   game/ai/minimax_engine.py        choose_best_move   (engine "mm")     *)
(*   game/ai.py                       AdvancedGomokuAI   (engine "adv")    *)
(*   game/ai/engines/engine_engine.py compute_ai_move    (engine "ee")     *)
(* Every search is modelled as the code computes it: a recursive descent   *)
(* that threads the mutable state (board, tables) through every call.      *)
(***************************************************************************)
EXTENDS Integers, Sequences, FiniteSets, TLC

(* ------------------------------ bounds --------------------------------- *)
\* Side of the modelled board.  The source plays on 15 x 15 (BOARD_SIZE = 15,
\* minimax_engine.py:9); the model keeps the name and bounds the side.
BOARD_SIZE == 6

\* Top-level calls per run, one per caller (the tables would otherwise grow
\* without bound).
MaxCalls == 2

\* Number of table entries above which choose_best_move clears the
\* transposition table (500_000 in the source, minimax_engine.py:527).
TT_CLEAR_LIMIT == 5

\* The _minimax call of one iterative-deepening pass that may raise: 1 .. MaxFault.
MaxFault == 2

\* Cells left empty on the dense input boards: 0 .. MaxEmpty.
MaxEmpty == 2

\* Time limits of AdvancedGomokuAI.best_move: the limit expires at the T-th
\* call of _is_time_over, T in 0 .. MaxTick, or not at all.
MaxTick == 6

(* ------------------------- program constants --------------------------- *)
WIN_LEN == 5

\* math.inf: larger than every score the engines compute (at most 10^9).
Inf == 2000000000

\* Python's None (no move, no winner, no table entry).
None == <<>>

\* What a top-level call gave back: kind is "move" (row, col, score, depth),
\* "none" (the call returned None) or "raise" (an exception left the call).
RetMove(row, col, score, depth) ==
  [kind |-> "move", row |-> row, col |-> col, score |-> score, depth |-> depth]
RetNone == [kind |-> "none", row |-> -1, col |-> -1, score |-> 0, depth |-> 0]
RetRaise == [kind |-> "raise", row |-> -1, col |-> -1, score |-> 0, depth |-> 0]

Rows == 0 .. (BOARD_SIZE - 1)
Cells == Rows \X Rows

\* Row-major position of a cell: the order of the source's nested r, c loops.
RowMajor(m) == m[1] * BOARD_SIZE + m[2]

Abs(x) == IF x < 0 THEN -x ELSE x
Max2(a, b) == IF a >= b THEN a ELSE b
Min2(a, b) == IF a <= b THEN a ELSE b

\* x + k and x - k on Python numbers where x may be +-math.inf and k is finite.
AddInf(x, k) == IF x = Inf \/ x = -Inf THEN x ELSE x + k

\* board[r][c] = v
Place(board, r, c, v) == [board EXCEPT ![r][c] = v]

EmptyBoard == [r \in Rows |-> [c \in Rows |-> ""]]

(* ===================== game/ai/minimax_engine.py ======================= *)

DIRS == << <<1, 0>>, <<0, 1>>, <<1, 1>>, <<1, -1>> >>

WIN == 7
OPEN_FOUR == 6
HALF_OPEN_FOUR == 5
OPEN_THREE == 4
HALF_OPEN_THREE == 3
OPEN_TWO == 2
HALF_OPEN_TWO == 1

\* PATTERN_SCORES.get(pat, 0)
PATTERN_SCORES(pat) ==
  CASE pat = WIN -> 1000000
    [] pat = OPEN_FOUR -> 100000
    [] pat = HALF_OPEN_FOUR -> 10000
    [] pat = OPEN_THREE -> 5000
    [] pat = HALF_OPEN_THREE -> 500
    [] pat = OPEN_TWO -> 50
    [] pat = HALF_OPEN_TWO -> 5
    [] OTHER -> 0

\* DIFFICULTY_PARAMS[difficulty], after the fallback of unknown names to
\* "standard" (choose_best_move, lines 504-507).
DIFFICULTY_PARAMS(difficulty) ==
  CASE difficulty = "easy" ->
         [max_depth |-> 2, radius |-> 2, max_candidates |-> 15, noise |-> 40]
    [] difficulty = "challenge" ->
         [max_depth |-> 6, radius |-> 1, max_candidates |-> 30, noise |-> 0]
    [] OTHER ->
         [max_depth |-> 4, radius |-> 2, max_candidates |-> 25, noise |-> 0]

_in_bounds(r, c) == 0 <= r /\ r < BOARD_SIZE /\ 0 <= c /\ c < BOARD_SIZE

\* The (r, c, direction) triples whose far end r + dr*(WIN_LEN-1) is on the board.
LineStarts ==
  {h \in Rows \X Rows \X (1 .. 4) :
     _in_bounds(h[1] + DIRS[h[3]][1] * (WIN_LEN - 1),
                h[2] + DIRS[h[3]][2] * (WIN_LEN - 1))}

\* Position of a triple in the scan order of _check_winner.
ScanOrder(h) == (h[1] * BOARD_SIZE + h[2]) * 4 + h[3]

\* A run test that accepts WIN_LEN - 1 equal stones.
FourFrom(board, h) ==
  /\ board[h[1]][h[2]] # ""
  /\ \A i \in 1 .. (WIN_LEN - 2) :
       board[h[1] + DIRS[h[3]][1] * i][h[2] + DIRS[h[3]][2] * i] = board[h[1]][h[2]]

\* The for/else of _check_winner: WIN_LEN equal stones from (r, c) along DIRS[k].
FiveFrom(board, h) ==
  /\ board[h[1]][h[2]] # ""
  /\ \A i \in 1 .. (WIN_LEN - 1) :
       board[h[1] + DIRS[h[3]][1] * i][h[2] + DIRS[h[3]][2] * i] = board[h[1]][h[2]]

\* _check_winner: the owner of the first five found in scan order, or None.
_check_winner(board) ==
  LET hits == {h \in LineStarts : FiveFrom(board, h)}
  IN IF hits = {} THEN None
     ELSE LET first == CHOOSE h \in hits : \A g \in hits : ScanOrder(h) <= ScanOrder(g)
          IN board[first[1]][first[2]]

\* Zobrist hashing.  _zobrist_keys[r][c][i] are independent random 64-bit
\* words; a hash (an XOR of keys) is modelled by the set of keys XOR-ed an odd
\* number of times, so XOR is symmetric difference and distinct key sets are
\* distinct hashes.
ZKey(r, c, i) == (r * BOARD_SIZE + c) * 2 + i
Xor(h, k) == IF k \in h THEN h \ {k} ELSE h \cup {k}

_zobrist_hash(board) ==
  {ZKey(m[1], m[2], 0) : m \in {x \in Cells : board[x[1]][x[2]] = "X"}}
    \cup {ZKey(m[1], m[2], 1) : m \in {x \in Cells : board[x[1]][x[2]] = "O"}}

StoneCount(board) == Cardinality({m \in Cells : board[m[1]][m[2]] # ""})

_get_game_stage(board) == Min2(StoneCount(board) \div 10, 2)

\* _find_immediate_win: the first empty cell, row-major, where a stone of
\* `player` makes _check_winner report `player`; every probe is undone.
_find_immediate_win(board, player) ==
  LET wins == {m \in Cells :
                 /\ board[m[1]][m[2]] = ""
                 /\ _check_winner(Place(board, m[1], m[2], player)) = player}
  IN IF wins = {} THEN None
     ELSE CHOOSE m \in wins : \A g \in wins : RowMajor(m) <= RowMajor(g)


\* Sum of f[1] .. f[n].
RECURSIVE SumTo(_, _)
SumTo(f, n) == IF n = 0 THEN 0 ELSE f[n] + SumTo(f, n - 1)

\* The cell with row-major position i.
CellAt(i) == <<i \div BOARD_SIZE, i % BOARD_SIZE>>

\* The while loop of _scan_direction: stones of `player` from (r, c) on.
RunLength(board, player, r, c, dr, dc) ==
  CHOOSE n \in 1 .. BOARD_SIZE :
    /\ \A j \in 1 .. (n - 1) :
         _in_bounds(r + dr * j, c + dc * j) /\ board[r + dr * j][c + dc * j] = player
    /\ ~(_in_bounds(r + dr * n, c + dc * n) /\ board[r + dr * n][c + dc * n] = player)

\* _scan_direction: the pattern type of the run that starts at (r, c).
_scan_direction(board, player, r, c, dr, dc) ==
  IF ~_in_bounds(r, c) \/ board[r][c] # player THEN 0
  ELSE IF _in_bounds(r - dr, c - dc) /\ board[r - dr][c - dc] = player THEN 0
  ELSE LET length == RunLength(board, player, r, c, dr, dc)
           nr == r + dr * length
           nc == c + dc * length
           left_open == _in_bounds(r - dr, c - dc) /\ board[r - dr][c - dc] = ""
           right_open == _in_bounds(nr, nc) /\ board[nr][nc] = ""
       IN CASE length >= 5 -> WIN
            [] length = 4 /\ left_open /\ right_open -> OPEN_FOUR
            [] length = 4 /\ (left_open # right_open) -> HALF_OPEN_FOUR
            [] length = 3 /\ left_open /\ right_open -> OPEN_THREE
            [] length = 3 /\ (left_open # right_open) -> HALF_OPEN_THREE
            [] length = 2 /\ left_open /\ right_open -> OPEN_TWO
            [] length = 2 /\ (left_open # right_open) -> HALF_OPEN_TWO
            [] OTHER -> 0

\* The pattern loop of _evaluate_position for one side (lines 195-206).
PatternTotal(board, who) ==
  SumTo([i \in 1 .. (BOARD_SIZE * BOARD_SIZE) |->
           LET m == CellAt(i - 1)
           IN IF board[m[1]][m[2]] = who
              THEN SumTo([k \in 1 .. 4 |->
                            PATTERN_SCORES(_scan_direction(board, who, m[1], m[2],
                                                           DIRS[k][1], DIRS[k][2]))], 4)
              ELSE 0],
        BOARD_SIZE * BOARD_SIZE)

\* The central-control bonus of _evaluate_position (lines 209-216): added for
\* `player` only, and only while fewer than 10 stones are on the board.
CentreBonus(board, player) ==
  IF _get_game_stage(board) # 0 THEN 0
  ELSE LET center == BOARD_SIZE \div 2
       IN SumTo([i \in 1 .. (BOARD_SIZE * BOARD_SIZE) |->
                   LET m == CellAt(i - 1)
                   IN IF board[m[1]][m[2]] = player
                      THEN Max2(0, 10 - (Abs(m[1] - center) + Abs(m[2] - center)))
                      ELSE 0],
                BOARD_SIZE * BOARD_SIZE)

_evaluate_position(board, player, opponent) ==
  LET winner == _check_winner(board)
  IN IF winner = player THEN PATTERN_SCORES(WIN)
     ELSE IF winner = opponent THEN -PATTERN_SCORES(WIN)
     ELSE PatternTotal(board, player) + CentreBonus(board, player)
            - PatternTotal(board, opponent)

\* _score_single_move: the stone is placed, scored and removed again.
_score_single_move(board, hist, r, c, player, opponent) ==
  LET b == Place(board, r, c, player)
  IN IF _check_winner(b) = player THEN 100000000
     ELSE SumTo([k \in 1 .. 4 |->
                   (PATTERN_SCORES(_scan_direction(b, player, r, c,
                                                   DIRS[k][1], DIRS[k][2])) \div 10)
                   + (PATTERN_SCORES(_scan_direction(b, player, r, c,
                                                     -DIRS[k][1], -DIRS[k][2])) \div 10)],
                4)
          + hist[r][c]

\* The cells of the board in row-major order, as a list.
CellList == [i \in 1 .. (BOARD_SIZE * BOARD_SIZE) |->
               <<(i - 1) \div BOARD_SIZE, (i - 1) % BOARD_SIZE>>] \o <<>>

\* The members of a set of cells as a list in row-major order.
RowMajorList(S) == SelectSeq(CellList, LAMBDA m : m \in S)

\* The sequence of the members of S sorted by key (a function from S to pairs)
\* with reverse=True: largest pair first; members with equal keys stay in
\* their original order.  (The source sorts a list built from a Python set
\* with a stable sort; the set's iteration order is modelled as row-major.)
SortDesc(S, key) ==
  LET seq == RowMajorList(S)
      ks == [i \in 1 .. Len(seq) |-> key[seq[i]]] \o <<>>
      before(a, b) ==
        \/ ks[a][1] > ks[b][1]
        \/ ks[a][1] = ks[b][1] /\ ks[a][2] > ks[b][2]
        \/ ks[a] = ks[b] /\ a < b
      order == SortSeq([i \in 1 .. Len(seq) |-> i], before)
  IN [i \in 1 .. Len(seq) |-> seq[order[i]]] \o <<>>

\* seq[:n]
Take(seq, n) == SubSeq(seq, 1, Min2(n, Len(seq)))

\* _generate_moves with the opening move of the empty board put on the first
\* cell instead of the centre.
GenerateMovesOpeningAtCorner(board, hist, player, opponent, radius, max_candidates) ==
  LET stones == {m \in Cells : board[m[1]][m[2]] # ""}
      center == BOARD_SIZE \div 2
      candidates ==
        {m \in Cells :
           /\ board[m[1]][m[2]] = ""
           /\ \E s \in stones : Abs(s[1] - m[1]) <= radius /\ Abs(s[2] - m[2]) <= radius}
      key == [m \in candidates |->
                <<Max2(10 * _score_single_move(board, hist, m[1], m[2], player, opponent),
                       9 * _score_single_move(board, hist, m[1], m[2], opponent, player)),
                  -(Abs(m[1] - center) + Abs(m[2] - center))>>]
  IN IF stones = {} THEN << <<0, 0>> >>
     ELSE Take(SortDesc(candidates, key), max_candidates)

\* _generate_moves: the candidate cells (row, col), best first.  The sort key
\* is (total_score, -distance to the centre); total_score = max(ai, opp * 0.9)
\* is kept exact by scaling it by 10: max(10 * ai, 9 * opp).
_generate_moves(board, hist, player, opponent, radius, max_candidates) ==
  LET stones == {m \in Cells : board[m[1]][m[2]] # ""}
      center == BOARD_SIZE \div 2
      candidates ==
        {m \in Cells :
           /\ board[m[1]][m[2]] = ""
           /\ \E s \in stones : Abs(s[1] - m[1]) <= radius /\ Abs(s[2] - m[2]) <= radius}
      key == [m \in candidates |->
                <<Max2(10 * _score_single_move(board, hist, m[1], m[2], player, opponent),
                       9 * _score_single_move(board, hist, m[1], m[2], opponent, player)),
                  -(Abs(m[1] - center) + Abs(m[2] - center))>>]
  IN IF stones = {} THEN << <<center, center>> >>
     ELSE Take(SortDesc(candidates, key), max_candidates)

(* ---- _minimax ---- *)
\* The mutable state a search runs on is threaded through the recursion as a
\* record st:
\*   board    the caller's board, mutated in place (place / undo)
\*   tt       _transposition_table : hash -> [depth, score, flag, move]
\*   hist     _history_table[r][c]
\*   killers  _killer_moves : depth -> <<move1, move2>>
\*   n        number of _minimax calls entered so far in this iteration
\*   exc      TRUE once an exception is propagating (st is then left as it
\*            was when the exception was raised: nothing is undone)
\* P holds what stays fixed in one iteration: player, opponent,
\* max_candidates, radius, and fault: the number of the _minimax call that
\* raises an exception on entry (0: none raises).

EXACT == 0
LOWERBOUND == 1
UPPERBOUND == 2

TTGet(tt, h) == IF h \in DOMAIN tt THEN tt[h] ELSE None
TTPut(tt, h, e) == [k \in (DOMAIN tt) \cup {h} |-> IF k = h THEN e ELSE tt[k]]

\* Lines 373-378: the killer slots of `depth` after move m improved the value.
KillerUpdate(killers, depth, m) ==
  LET slots == IF depth \in DOMAIN killers THEN killers[depth] ELSE <<None, None>>
      new == IF m = slots[1] \/ m = slots[2] THEN slots ELSE <<m, slots[1]>>
  IN [d \in (DOMAIN killers) \cup {depth} |-> IF d = depth THEN new ELSE killers[d]]

\* Lines 383 / 414: _history_table[r][c] += depth * depth
HistoryBump(hist, r, c, depth) == [hist EXCEPT ![r][c] = @ + depth * depth]

\* Line 247: the history weight that orders the move (r, c) of `player`; the
\* table has one weight per cell.
HistoryWeight(hist, player, r, c) == hist[r][c]

\* Lines 354 and 392: the key of the child a node reaches by the move
\* (r, c); a maximizing node toggles component 0, a minimizing one component 1.
child_hash(node_hash, r, c, maximizing) ==
  Xor(node_hash, ZKey(r, c, IF maximizing THEN 0 ELSE 1))

RECURSIVE _minimax(_, _, _, _, _, _, _, _)
RECURSIVE MaxLoop(_, _, _, _, _, _, _, _, _, _)
RECURSIVE MinLoop(_, _, _, _, _, _, _, _, _, _)

\* Lines 367-384: the maximizing loop after the recursive call for the i-th
\* move returned sub (or raised: nothing is undone then).
MaxStep(sub, moves, i, value, best_move, alpha, beta, depth, P, hp) ==
  IF sub.st.exc
  THEN [st |-> sub.st, value |-> value, best_move |-> best_move, a |-> alpha]
  ELSE
    LET r == moves[i][1]
        c == moves[i][2]
        st1 == [sub.st EXCEPT !.board = Place(sub.st.board, r, c, "")]
        better == sub.score > value
        value1 == IF better THEN sub.score ELSE value
        best1 == IF better THEN <<r, c>> ELSE best_move
        st2 == IF better
               THEN [st1 EXCEPT !.killers = KillerUpdate(st1.killers, depth, <<r, c>>)]
               ELSE st1
        alpha1 == Max2(alpha, value1)
    IN IF alpha1 >= beta
       THEN [st |-> [st2 EXCEPT !.hist = HistoryBump(st2.hist, r, c, depth)],
             value |-> value1, best_move |-> best1, a |-> alpha1]
       ELSE MaxLoop(st2, moves, i + 1, value1, best1, alpha1, beta, depth, P, hp)

\* The maximizing loop (lines 352-384) from the i-th move on.
\* hp = <<node_hash, ply>>.
MaxLoop(st, moves, i, value, best_move, alpha, beta, depth, P, hp) ==
  IF i > Len(moves) THEN [st |-> st, value |-> value, best_move |-> best_move, a |-> alpha]
  ELSE MaxStep(_minimax([st EXCEPT !.board = Place(st.board, moves[i][1], moves[i][2],
                                                   P.player)],
                        depth - 1, alpha, beta, FALSE, P,
                        child_hash(hp[1], moves[i][1], moves[i][2], TRUE), hp[2] + 1),
               moves, i, value, best_move, alpha, beta, depth, P, hp)

\* Lines 405-415: the minimizing loop after the recursive call for the i-th
\* move returned sub.
MinStep(sub, moves, i, value, best_move, alpha, beta, depth, P, hp) ==
  IF sub.st.exc
  THEN [st |-> sub.st, value |-> value, best_move |-> best_move, b |-> beta]
  ELSE
    LET r == moves[i][1]
        c == moves[i][2]
        st1 == [sub.st EXCEPT !.board = Place(sub.st.board, r, c, "")]
        better == sub.score < value
        value1 == IF better THEN sub.score ELSE value
        best1 == IF better THEN <<r, c>> ELSE best_move
        beta1 == Min2(beta, value1)
    IN IF alpha >= beta1
       THEN [st |-> [st1 EXCEPT !.hist = HistoryBump(st1.hist, r, c, depth)],
             value |-> value1, best_move |-> best1, b |-> beta1]
       ELSE MinLoop(st1, moves, i + 1, value1, best1, alpha, beta1, depth, P, hp)

\* The minimizing loop (lines 390-415) from the i-th move on.
MinLoop(st, moves, i, value, best_move, alpha, beta, depth, P, hp) ==
  IF i > Len(moves) THEN [st |-> st, value |-> value, best_move |-> best_move, b |-> beta]
  ELSE MinStep(_minimax([st EXCEPT !.board = Place(st.board, moves[i][1], moves[i][2],
                                                   P.opponent)],
                        depth - 1, alpha, beta, TRUE, P,
                        child_hash(hp[1], moves[i][1], moves[i][2], FALSE), hp[2] + 1),
               moves, i, value, best_move, alpha, beta, depth, P, hp)

\* Lines 385-388 / 416-424: what _minimax stores and returns once its loop
\* ended in lp.
MinimaxStore(lp, depth, alpha, beta, maximizing, node_hash) ==
  LET flag == IF maximizing
              THEN (IF lp.a > beta THEN EXACT ELSE LOWERBOUND)
              ELSE (IF lp.b < alpha THEN EXACT ELSE UPPERBOUND)
  IN IF lp.st.exc THEN [st |-> lp.st, score |-> 0, move |-> None]
     ELSE [st |-> IF depth >= 2
                  THEN [lp.st EXCEPT !.tt =
                          TTPut(lp.st.tt, node_hash,
                                [depth |-> depth, score |-> lp.value,
                                 flag |-> flag, move |-> lp.best_move])]
                  ELSE lp.st,
           score |-> lp.value, move |-> lp.best_move]

\* Lines 340-424: the search below a node over its generated moves.
MinimaxSearch(st, moves, depth, alpha, beta, maximizing, P, hp) ==
  MinimaxStore(IF maximizing
               THEN MaxLoop(st, moves, 1, -Inf, None, alpha, beta, depth, P, hp)
               ELSE MinLoop(st, moves, 1, Inf, None, alpha, beta, depth, P, hp),
               depth, alpha, beta, maximizing, hp[1])

\* Lines 319-329: the probe of the table at a node: whether the entry
\* answers the node, and the window the node goes on with otherwise (the
\* probe assigns neither alpha nor beta).
tt_probe(tt_entry, depth, alpha, beta) ==
  [hit |-> /\ tt_entry # None
           /\ tt_entry.depth >= depth
           /\ \/ tt_entry.flag = EXACT
              \/ tt_entry.flag = LOWERBOUND /\ tt_entry.score >= beta
              \/ tt_entry.flag = UPPERBOUND /\ tt_entry.score <= alpha,
   alpha |-> alpha, beta |-> beta]

\* _minimax (lines 302-424).
_minimax(st0, depth, alpha, beta, maximizing, P, node_hash, ply) ==
  LET st == [st0 EXCEPT !.n = @ + 1]
      tt_entry == TTGet(st.tt, node_hash)
      pr == tt_probe(tt_entry, depth, alpha, beta)
      winner == _check_winner(st.board)
  IN IF P.fault = st.n THEN [st |-> [st EXCEPT !.exc = TRUE], score |-> 0, move |-> None]
     ELSE IF pr.hit THEN [st |-> st, score |-> tt_entry.score, move |-> tt_entry.move]
     ELSE IF winner = P.player
       THEN [st |-> st, score |-> PATTERN_SCORES(WIN) - ply, move |-> None]
     ELSE IF winner = P.opponent
       THEN [st |-> st, score |-> -PATTERN_SCORES(WIN) + ply, move |-> None]
     ELSE IF depth = 0
       THEN [st |-> st, score |-> _evaluate_position(st.board, P.player, P.opponent),
             move |-> None]
     ELSE MinimaxSearch(st,
                        _generate_moves(st.board, st.hist,
                                        IF maximizing THEN P.player ELSE P.opponent,
                                        IF maximizing THEN P.opponent ELSE P.player,
                                        P.radius, P.max_candidates),
                        depth, pr.alpha, pr.beta, maximizing, P, <<node_hash, ply>>)

\* Lines 456-485: the re-search when the first score fell outside the window.
AspirationRetry(first, depth, alpha, beta, P, node_hash) ==
  IF first.st.exc THEN first
  ELSE IF first.score <= alpha
    THEN _minimax(first.st, depth, -Inf, beta, TRUE, P, node_hash, 0)
  ELSE IF first.score >= beta
    THEN _minimax(first.st, depth, alpha, Inf, TRUE, P, node_hash, 0)
  ELSE first

\* _aspiration_search (lines 427-485).
_aspiration_search(st, depth, prev_score, P, node_hash) ==
  LET margin == IF depth >= 4 THEN 500 ELSE 1000
      alpha == AddInf(prev_score, -margin)
      beta == AddInf(prev_score, margin)
  IN AspirationRetry(_minimax(st, depth, alpha, beta, TRUE, P, node_hash, 0),
                     depth, alpha, beta, P, node_hash)

(* ================== game/ai/engines/engine_engine.py =================== *)
\* Board encoding: 0 empty, 1 human (X), -1 AI (O).  A board is a list of
\* rows; len(board) and len(row) are the sizes of the domains.

PyLen(f) == Cardinality(DOMAIN f)

\* views.py lines 184-196: the board handed to pick_ai_move.
ToInts(board) ==
  [r \in DOMAIN board |->
     [c \in DOMAIN board[r] |->
        IF board[r][c] = "X" THEN 1 ELSE IF board[r][c] = "O" THEN -1 ELSE 0]]

_difficulty_to_depth(difficulty) ==
  CASE difficulty = "easy" -> 2
    [] difficulty = "standard" -> 4
    [] difficulty = "challenge" -> 6
    [] OTHER -> 4

ee_in_bounds(n, r, c) == 0 <= r /\ r < n /\ 0 <= c /\ c < n

NCells(n) == (0 .. (n - 1)) \X (0 .. (n - 1))

\* The members of S (cells) in ascending order of (key, row, col).
SortAsc(S, key) ==
  LET seq == RowMajorList(S)
      ks == [i \in 1 .. Len(seq) |-> key[seq[i]]] \o <<>>
      before(a, b) == ks[a] < ks[b] \/ (ks[a] = ks[b] /\ a < b)
      order == SortSeq([i \in 1 .. Len(seq) |-> i], before)
  IN [i \in 1 .. Len(seq) |-> seq[order[i]]] \o <<>>

\* _legal_moves, as a set (the caller draws one at random).
_legal_moves(board) == {m \in NCells(PyLen(board)) : board[m[1]][m[2]] = 0}

_has_any_stone(board) == \E r \in DOMAIN board : \E c \in DOMAIN board[r] : board[r][c] # 0

\* _candidate_moves: empty cells within `radius` of a stone, nearest to the
\* centre first (ties by row, then column), cut to the first k.
_candidate_moves(board, k, radius) ==
  LET n == PyLen(board)
      center == n \div 2
      stones == {m \in NCells(n) : board[m[1]][m[2]] # 0}
      candidates ==
        {m \in NCells(n) :
           /\ board[m[1]][m[2]] = 0
           /\ \E s \in stones : Abs(s[1] - m[1]) <= radius /\ Abs(s[2] - m[2]) <= radius}
      key == [m \in candidates |-> Abs(m[1] - center) + Abs(m[2] - center)]
  IN IF ~_has_any_stone(board) THEN << <<center, center>> >>
     ELSE Take(SortAsc(candidates, key), k)

\* _count_in_direction: stones of `player` after (r, c) along (dr, dc).
_count_in_direction(board, r, c, dr, dc, player) ==
  LET n == PyLen(board)
  IN CHOOSE cnt \in 0 .. n :
       /\ \A j \in 1 .. cnt :
            ee_in_bounds(n, r + dr * j, c + dc * j) /\ board[r + dr * j][c + dc * j] = player
       /\ ~(/\ ee_in_bounds(n, r + dr * (cnt + 1), c + dc * (cnt + 1))
            /\ board[r + dr * (cnt + 1)][c + dc * (cnt + 1)] = player)

\* _is_winning_move: the stone is placed, counted and removed (try/finally).
_is_winning_move(board, r, c, player) ==
  /\ board[r][c] = 0
  /\ LET b == Place(board, r, c, player)
     IN \E k \in 1 .. 4 :
          1 + _count_in_direction(b, r, c, DIRS[k][1], DIRS[k][2], player)
            + _count_in_direction(b, r, c, -DIRS[k][1], -DIRS[k][2], player) >= 5

\* _heuristic: centre preference and open neighbours, from the AI's side.
_heuristic(board) ==
  LET n == PyLen(board)
      center == n \div 2
  IN SumTo([i \in 1 .. (n * n) |->
              LET r == (i - 1) \div n
                  c == (i - 1) % n
                  v == board[r][c]
                  open == Cardinality({d \in (-1 .. 1) \X (-1 .. 1) :
                                         /\ d # <<0, 0>>
                                         /\ ee_in_bounds(n, r + d[1], c + d[2])
                                         /\ board[r + d[1]][c + d[2]] = 0})
              IN IF v = 0 THEN 0
                 ELSE (-v) * Max2(0, 8 - (Abs(r - center) + Abs(c - center))) + (-v) * open],
           n * n)

RECURSIVE _minimax_ab(_, _, _, _, _)
RECURSIVE AbLoop(_, _, _, _, _, _, _, _)

\* The two loops of _minimax_ab (lines 166-191) from the i-th move on; every
\* stone is removed again before the next move is tried.
AbLoop(board, moves, i, best, alpha, beta, depth, maximizing) ==
  IF i > Len(moves) THEN best
  ELSE
    LET r == moves[i][1]
        c == moves[i][2]
    IN IF board[r][c] # 0
       THEN AbLoop(board, moves, i + 1, best, alpha, beta, depth, maximizing)
       ELSE IF maximizing
       THEN LET val == _minimax_ab(Place(board, r, c, -1), depth - 1, 1, alpha, beta)
                best1 == Max2(best, val)
                alpha1 == Max2(alpha, best1)
            IN IF beta <= alpha1 THEN best1
               ELSE AbLoop(board, moves, i + 1, best1, alpha1, beta, depth, maximizing)
       ELSE LET val == _minimax_ab(Place(board, r, c, 1), depth - 1, -1, alpha, beta)
                best1 == Min2(best, val)
                beta1 == Min2(beta, best1)
            IN IF beta1 <= alpha THEN best1
               ELSE AbLoop(board, moves, i + 1, best1, alpha, beta1, depth, maximizing)

_minimax_ab(board, depth, player_to_move, alpha, beta) ==
  LET moves == _candidate_moves(board, 20, 2)
  IN IF depth = 0 THEN _heuristic(board)
     ELSE IF Len(moves) = 0 THEN _heuristic(board)
     ELSE IF \E i \in 1 .. Len(moves) :
               _is_winning_move(board, moves[i][1], moves[i][2], player_to_move)
       THEN (IF player_to_move = -1 THEN 100000000 ELSE -100000000)
     ELSE IF player_to_move = -1
       THEN AbLoop(board, moves, 1, -1000000000, alpha, beta, depth, TRUE)
       ELSE AbLoop(board, moves, 1, 1000000000, alpha, beta, depth, FALSE)

\* The first index at which the sequence of booleans `hits` is TRUE, or 0.
FirstIndex(hits) ==
  IF \E i \in 1 .. Len(hits) : hits[i]
  THEN CHOOSE i \in 1 .. Len(hits) : hits[i] /\ \A j \in 1 .. (i - 1) : ~hits[j]
  ELSE 0

\* compute_ai_move (lines 194-264): the set of results (row, col, meta) it can
\* return, one for every value random.choice can yield.
compute_ai_move(board, difficulty) ==
  LET depth == _difficulty_to_depth(difficulty)
      n == PyLen(board)
      center == n \div 2
      moves == _candidate_moves(board, 24, 2)
      lm == _legal_moves(board)
      fallback == IF lm = {} THEN {RetMove(0, 0, 0, depth)}
                  ELSE {RetMove(m[1], m[2], 0, depth) : m \in lm}
      IsWin(m) == _is_winning_move(board, m[1], m[2], -1)
      win == FirstIndex([i \in 1 .. Len(moves) |-> IsWin(moves[i])])
      threats == {moves[i] : i \in {j \in 1 .. Len(moves) :
                                      _is_winning_move(board, moves[j][1], moves[j][2], 1)}}
      key == [m \in threats |-> Abs(m[1] - center) + Abs(m[2] - center)]
      score == [i \in 1 .. Len(moves) |->
                  _minimax_ab(Place(board, moves[i][1], moves[i][2], -1),
                              depth - 1, 1, -1000000000, 1000000000)] \o <<>>
      best_score == CHOOSE v \in {score[i] : i \in 1 .. Len(moves)} :
                      \A i \in 1 .. Len(moves) : score[i] <= v
      best_moves == {moves[i] : i \in {j \in 1 .. Len(moves) : score[j] = best_score}}
  IN IF n = 0 \/ \E r \in DOMAIN board : PyLen(board[r]) # n
       THEN {RetMove(0, 0, 0, depth)}
     ELSE IF ~_has_any_stone(board) THEN {RetMove(center, center, 0, depth)}
     ELSE IF Len(moves) = 0 THEN fallback
     ELSE IF win # 0 THEN {RetMove(moves[win][1], moves[win][2], 100000000, depth)}
     ELSE IF threats # {}
       THEN LET t == SortAsc(threats, key)[1] IN {RetMove(t[1], t[2], 10000000, depth)}
     ELSE IF best_score <= -1000000000 THEN fallback
     ELSE {RetMove(m[1], m[2], best_score, depth) : m \in best_moves}

(* ============================ game/ai.py =============================== *)
\* AdvancedGomokuAI with the defaults of the module-level singleton
\* _global_ai = AdvancedGomokuAI(): ai_player "O", human_player "X".

HUMAN == "X"
AI == "O"

in_bounds(r, c, n) == 0 <= r /\ r < n /\ 0 <= c /\ c < n

Other(player) == IF player = AI THEN HUMAN ELSE AI

\* One of the two while loops of has_five: the stones of `player` that
\* follow (r, c) in direction (dr, dc).
RECURSIVE CountFrom(_, _, _, _, _, _)
CountFrom(board, r, c, dr, dc, player) ==
  IF in_bounds(r + dr, c + dc, PyLen(board)) /\ board[r + dr][c + dc] = player
  THEN 1 + CountFrom(board, r + dr, c + dc, dr, dc, player)
  ELSE 0

has_five(board, r, c, player) ==
  \E k \in 1 .. 4 :
    1 + CountFrom(board, r, c, DIRS[k][1], DIRS[k][2], player)
      + CountFrom(board, r, c, -DIRS[k][1], -DIRS[k][2], player) >= 5

\* check_win: the owner of the first stone, row-major, that lies on a five.
check_win(board) ==
  LET n == PyLen(board)
      on == {m \in NCells(n) :
               /\ board[m[1]][m[2]] \in {HUMAN, AI}
               /\ has_five(board, m[1], m[2], board[m[1]][m[2]])}
  IN IF on = {} THEN None
     ELSE LET m == CHOOSE x \in on : \A y \in on : x[1] * n + x[2] <= y[1] * n + y[2]
          IN board[m[1]][m[2]]

\* basic_neighbors / the candidate set of generate_moves.  list(set) is
\* modelled in row-major order.
NearEmpty(board, S, dist) ==
  {m \in NCells(PyLen(board)) :
     /\ board[m[1]][m[2]] = ""
     /\ \E s \in S : Abs(s[1] - m[1]) <= dist /\ Abs(s[2] - m[2]) <= dist}

generate_moves(board, last_move, dist) ==
  LET n == PyLen(board)
      occ == {m \in NCells(n) : board[m[1]][m[2]] \in {HUMAN, AI}}
      near == IF last_move = None THEN {} ELSE NearEmpty(board, {last_move}, dist)
      cand == IF Cardinality(near) < 6 THEN near \cup NearEmpty(board, occ, dist) ELSE near
  IN IF occ = {} THEN << <<n \div 2, n \div 2>> >> ELSE RowMajorList(cand)

\* PATTERN_SCORES of ai.py (lines 65-81), after the mapping of the scoring
\* side to "O" and of empty cells to "_".
adv_PATTERN_SCORES ==
  << [p |-> <<"O", "O", "O", "O", "O">>, v |-> 1000000],
     [p |-> <<"O", "O", "O", "O", "_">>, v |-> 100000],
     [p |-> <<"_", "O", "O", "O", "O">>, v |-> 100000],
     [p |-> <<"_", "O", "O", "O", "O", "_">>, v |-> 150000],
     [p |-> <<"O", "O", "O", "_", "O">>, v |-> 80000],
     [p |-> <<"O", "O", "_", "O", "O">>, v |-> 80000],
     [p |-> <<"_", "O", "O", "O", "_">>, v |-> 5000],
     [p |-> <<"O", "O", "O", "_", "_">>, v |-> 3000],
     [p |-> <<"_", "_", "O", "O", "O">>, v |-> 3000],
     [p |-> <<"_", "O", "O", "O">>, v |-> 3000],
     [p |-> <<"O", "O", "_", "O", "_">>, v |-> 3000],
     [p |-> <<"_", "O", "_", "O", "O">>, v |-> 3000],
     [p |-> <<"_", "O", "O", "_">>, v |-> 500],
     [p |-> <<"_", "_", "O", "O", "_">>, v |-> 300],
     [p |-> <<"_", "O", "O", "_", "_">>, v |-> 300] >>

\* _extract_lines: rows, columns and the diagonals of at least 5 cells, each
\* as the list of its cells (the characters are read off the board later).
LineCells(n) ==
  [r \in 1 .. n |-> [i \in 1 .. n |-> <<r - 1, i - 1>>]]
    \o [c \in 1 .. n |-> [i \in 1 .. n |-> <<i - 1, c - 1>>]]
    \o [q \in 1 .. (2 * (n - 5) + 1) |->
          LET k == q - 1 - (n - 5)
              r0 == Max2(0, -k)
          IN [i \in 1 .. (n - Abs(k)) |-> <<r0 + i - 1, r0 + i - 1 + k>>]]
    \o [q \in 1 .. (2 * (n - 5) + 1) |->
          LET k == q + 3
              r0 == Max2(0, k - n + 1)
          IN [i \in 1 .. (n - Abs(k - (n - 1))) |-> <<r0 + i - 1, k - (r0 + i - 1)>>]]

BoardLines == LineCells(BOARD_SIZE)

_extract_lines(board) ==
  IF PyLen(board) = BOARD_SIZE THEN BoardLines ELSE LineCells(PyLen(board))

\* _score_line_patterns: every (overlapping) occurrence of every pattern.
_score_line_patterns(board, line, player_char) ==
  LET mapped == [i \in 1 .. Len(line) |->
                   LET ch == board[line[i][1]][line[i][2]]
                   IN IF ch = player_char THEN "O"
                      ELSE IF ch = Other(player_char) THEN "X" ELSE "_"]
      occurrences(p) ==
        Cardinality({i \in 1 .. (Len(mapped) - Len(p) + 1) :
                       \A j \in 1 .. Len(p) : mapped[i + j - 1] = p[j]})
  IN SumTo([q \in 1 .. Len(adv_PATTERN_SCORES) |->
              adv_PATTERN_SCORES[q].v * occurrences(adv_PATTERN_SCORES[q].p)],
           Len(adv_PATTERN_SCORES))

\* enhanced_evaluation; int(1.1 * h) is (11 * h) div 10 for h >= 0.
enhanced_evaluation(board) ==
  LET n == PyLen(board)
      mid == n \div 2
      winner == check_win(board)
      lines == _extract_lines(board)
      side(who) ==
        SumTo([l \in 1 .. Len(lines) |-> _score_line_patterns(board, lines[l], who)],
              Len(lines))
        + SumTo([i \in 1 .. (n * n) |->
                   LET r == (i - 1) \div n
                       c == (i - 1) % n
                   IN IF board[r][c] = who
                      THEN Max2(0, 8 - (Abs(r - mid) + Abs(c - mid))) ELSE 0],
                n * n)
  IN IF winner = AI THEN 1000000
     ELSE IF winner = HUMAN THEN -1000000
     ELSE side(AI) - ((11 * side(HUMAN)) \div 10)

\* dict.get(key, default)
DictGet(d, k, default) == IF k \in DOMAIN d THEN d[k] ELSE default
DictPut(d, k, v) == [x \in (DOMAIN d) \cup {k} |-> IF x = k THEN v ELSE d[x]]

\* seq.sort(reverse=True, key=...): stable, largest key first.
StableSortDesc(seq, key) ==
  LET ks == [i \in 1 .. Len(seq) |-> key[i]] \o <<>>
      before(a, b) == ks[a] > ks[b] \/ (ks[a] = ks[b] /\ a < b)
      order == SortSeq([i \in 1 .. Len(seq) |-> i], before)
  IN [i \in 1 .. Len(seq) |-> seq[order[i]]] \o <<>>

\* advanced_move_ordering; both probes of a cell are undone (line 284).
advanced_move_ordering(board, killer_moves, history_heuristic, moves, player, depth, last_move) ==
  LET mid == PyLen(board) \div 2
      opponent == Other(player)
      killer_list == DictGet(killer_moves, depth, <<>>)
      score == [i \in 1 .. Len(moves) |->
                  LET r == moves[i][1]
                      c == moves[i][2]
                  IN -(Abs(r - mid) + Abs(c - mid))
                     + (IF \E q \in 1 .. Len(killer_list) : killer_list[q] = moves[i]
                        THEN 50000 ELSE 0)
                     + DictGet(history_heuristic, <<player, moves[i]>>, 0)
                     + (IF check_win(Place(board, r, c, player)) = player THEN 1000000
                        ELSE IF check_win(Place(board, r, c, opponent)) = opponent
                        THEN 200000 ELSE 0)
                     + (IF /\ last_move # None
                           /\ Max2(Abs(r - last_move[1]), Abs(c - last_move[2])) <= 1
                        THEN 1000 ELSE 0)]
  IN StableSortDesc(moves, score)

\* A position test that calls no position quiet.
NeverQuiet(board) == FALSE

\* _is_quiet (lines 302-313).
_is_quiet(board) ==
  \A m \in NCells(PyLen(board)) :
    board[m[1]][m[2]] \in {AI, HUMAN} => ~has_five(board, m[1], m[2], board[m[1]][m[2]])

\* The search state of _global_ai is threaded through the recursion as a
\* record st:
\*   board, transposition_table, killer_moves, history_heuristic
\*   nodes, cutoffs, eval_calls   the statistics counters
\*   T        the time limit: -1 for time_limit=None; otherwise _is_time_over
\*            answers False on its first T calls and True from then on
\*            (a limit above MaxTick never expires)
\*   checks   calls of _is_time_over made so far

\* _is_time_over: the state after the call, and its answer in that state.
Tick(st) == [st EXCEPT !.checks = IF st.T < 0 THEN @ ELSE Min2(@ + 1, MaxTick + 1)]
TimeOver(st) == st.T >= 0 /\ st.T <= MaxTick /\ st.checks > st.T

RECURSIVE quiescence_search(_, _, _, _, _, _)
RECURSIVE QLoop(_, _, _, _, _, _, _)

\* Lines 338-343: the loop of quiescence_search after the recursive call for
\* the i-th move returned sub.
QStep(sub, ordered, i, alpha, beta, player, q_depth) ==
  LET r == ordered[i][1]
      c == ordered[i][2]
      st1 == [sub.st EXCEPT !.board = Place(sub.st.board, r, c, "")]
      score == -sub.val
  IN IF score >= beta THEN [st |-> st1, val |-> beta]
     ELSE QLoop(st1, ordered, i + 1, Max2(alpha, score), beta, player, q_depth)

\* The loop of quiescence_search (lines 332-344) from the i-th move on.
QLoop(st, ordered, i, alpha, beta, player, q_depth) ==
  IF i > Len(ordered) THEN [st |-> st, val |-> alpha]
  ELSE QStep(quiescence_search([st EXCEPT !.board = Place(st.board, ordered[i][1],
                                                          ordered[i][2], player)],
                               -beta, -alpha, Other(player),
                               <<ordered[i][1], ordered[i][2]>>, q_depth - 1),
             ordered, i, alpha, beta, player, q_depth)

\* Lines 319-344: quiescence_search once the stand-pat value is known.
QNode(st, stand_pat, alpha, beta, player, last_move, q_depth) ==
  IF stand_pat >= beta THEN [st |-> st, val |-> beta]
  ELSE IF q_depth = 0 \/ _is_quiet(st.board) THEN [st |-> st, val |-> stand_pat]
  ELSE QLoop(st,
             advanced_move_ordering(st.board, st.killer_moves, st.history_heuristic,
                                    generate_moves(st.board, last_move, 1),
                                    player, -1, last_move),
             1, Max2(alpha, stand_pat), beta, player, q_depth)

\* quiescence_search (lines 315-344).
quiescence_search(st0, alpha, beta, player, last_move, q_depth) ==
  QNode([st0 EXCEPT !.nodes = @ + 1, !.eval_calls = @ + 1],
        enhanced_evaluation(st0.board), alpha, beta, player, last_move, q_depth)

\* Lines 412-419 / 428-435: a cutoff by `move` at `depth`.
Cutoff(st, depth, player, move) ==
  LET killers == DictGet(st.killer_moves, depth, <<>>)
      new == IF \E q \in 1 .. Len(killers) : killers[q] = move THEN killers
             ELSE <<move>> \o Take(killers, 1)
  IN [st EXCEPT
        !.cutoffs = @ + 1,
        !.killer_moves = IF new = killers THEN @ ELSE DictPut(@, depth, new),
        !.history_heuristic =
           DictPut(@, <<player, move>>, DictGet(@, <<player, move>>, 0) + depth * depth)]

RECURSIVE alpha_beta(_, _, _, _, _, _, _, _)
RECURSIVE ABLoop(_, _, _, _, _, _, _, _)

\* Lines 398-436: the loop of alpha_beta after the recursive call for the
\* i-th move returned sub.
ABStep(sub, ordered, i, best_val, alpha, beta, fr, unused) ==
  LET r == ordered[i][1]
      c == ordered[i][2]
      st1 == [sub.st EXCEPT !.board = Place(sub.st.board, r, c, "")]
      val == sub.val
  IN IF fr.maximizing
     THEN LET best1 == Max2(best_val, val)
              alpha1 == Max2(alpha, best1)
          IN IF val >= beta
             THEN [st |-> Cutoff(st1, fr.depth, fr.player, <<r, c>>), val |-> best1]
             ELSE ABLoop(st1, ordered, i + 1, best1, alpha1, beta, fr, unused)
     ELSE LET best1 == Min2(best_val, val)
              beta1 == Min2(beta, best1)
          IN IF val <= alpha
             THEN [st |-> Cutoff(st1, fr.depth, fr.player, <<r, c>>), val |-> best1]
             ELSE ABLoop(st1, ordered, i + 1, best1, alpha, beta1, fr, unused)

\* The loop of alpha_beta (lines 390-436) from the i-th move on.
\* fr = [depth, player, maximizing, ply], fixed for the node.
ABLoop(st, ordered, i, best_val, alpha, beta, fr, unused) ==
  IF i > Len(ordered) THEN [st |-> st, val |-> best_val]
  ELSE ABStep(alpha_beta([st EXCEPT !.board = Place(st.board, ordered[i][1],
                                                    ordered[i][2], fr.player)],
                         fr.depth - 1, alpha, beta, Other(fr.player), ~fr.maximizing,
                         <<ordered[i][1], ordered[i][2]>>, fr.ply + 1),
              ordered, i, best_val, alpha, beta, fr, unused)

\* Lines 438-446: the flag, the table entry and the value alpha_beta returns
\* once its loop ended in lp.
ABStore(lp, key, depth, alpha0, beta0, maximizing) ==
  LET flag == IF lp.val <= alpha0
              THEN (IF maximizing THEN "UPPERBOUND" ELSE "LOWERBOUND")
              ELSE IF lp.val >= beta0
              THEN (IF maximizing THEN "LOWERBOUND" ELSE "UPPERBOUND")
              ELSE "EXACT"
  IN [st |-> [lp.st EXCEPT !.transposition_table =
                DictPut(@, key, [val |-> lp.val, depth |-> depth, flag |-> flag])],
      val |-> lp.val]

\* Lines 381-446: alpha_beta once the moves of the node are generated.
ABSearch(st, moves, key, depth, alpha0, beta0, alpha, beta, player, maximizing, last_move, ply) ==
  IF Len(moves) = 0
  THEN [st |-> [st EXCEPT !.eval_calls = @ + 1], val |-> enhanced_evaluation(st.board)]
  ELSE ABStore(ABLoop(st,
                      advanced_move_ordering(st.board, st.killer_moves,
                                             st.history_heuristic, moves, player,
                                             depth, last_move),
                      1, IF maximizing THEN -Inf ELSE Inf, alpha, beta,
                      [depth |-> depth, player |-> player, maximizing |-> maximizing,
                       ply |-> ply], 0),
               key, depth, alpha0, beta0, maximizing)

\* alpha_beta (lines 348-446).
alpha_beta(st0, depth, alpha0, beta0, player, maximizing, last_move, ply) ==
  LET stT == Tick(st0)
      st == [stT EXCEPT !.nodes = @ + 1]
      winner == check_win(st.board)
      key == <<player, depth, st.board>>
      tt_entry == DictGet(st.transposition_table, key, None)
      usable == tt_entry # None /\ tt_entry.depth >= depth
      alpha == IF usable /\ tt_entry.flag = "LOWERBOUND"
               THEN Max2(alpha0, tt_entry.val) ELSE alpha0
      beta == IF usable /\ tt_entry.flag = "UPPERBOUND"
              THEN Min2(beta0, tt_entry.val) ELSE beta0
  IN IF TimeOver(stT)
       THEN [st |-> [stT EXCEPT !.eval_calls = @ + 1], val |-> enhanced_evaluation(stT.board)]
     ELSE IF winner = AI THEN [st |-> st, val |-> 1000000 - ply]
     ELSE IF winner = HUMAN THEN [st |-> st, val |-> -1000000 + ply]
     ELSE IF depth = 0 THEN quiescence_search(st, alpha0, beta0, player, last_move, 2)
     ELSE IF usable /\ tt_entry.flag = "EXACT" THEN [st |-> st, val |-> tt_entry.val]
     ELSE IF usable /\ alpha >= beta THEN [st |-> st, val |-> tt_entry.val]
     ELSE ABSearch(st, generate_moves(st.board, last_move, 2), key, depth,
                   alpha0, beta0, alpha, beta, player, maximizing, last_move, ply)

RECURSIVE RootLoop(_, _, _, _, _, _, _)

\* Lines 485-498: the loop of _search_root after the search of the i-th
\* move returned sub; st is the state after the time check of the move.
RootStep(sub, st, ordered, i, best_val, best_move, alpha, depth) ==
  LET r == ordered[i][1]
      c == ordered[i][2]
      st1 == [sub.st EXCEPT !.board = Place(sub.st.board, r, c, "")]
      better == sub.val > best_val
  IN IF TimeOver(st) THEN [st |-> st, move |-> best_move, val |-> best_val]
     ELSE RootLoop(st1, ordered, i + 1,
                   IF better THEN sub.val ELSE best_val,
                   IF better THEN <<r, c>> ELSE best_move,
                   Max2(alpha, sub.val), depth)

\* The loop of _search_root (lines 479-498) from the i-th move on.
RootLoop(st0, ordered, i, best_val, best_move, alpha, depth) ==
  IF i > Len(ordered) THEN [st |-> st0, move |-> best_move, val |-> best_val]
  ELSE RootStep(alpha_beta([Tick(st0) EXCEPT !.board = Place(st0.board, ordered[i][1],
                                                             ordered[i][2], AI)],
                           depth - 1, alpha, Inf, HUMAN, FALSE,
                           <<ordered[i][1], ordered[i][2]>>, 1),
                Tick(st0), ordered, i, best_val, best_move, alpha, depth)

\* _search_root (lines 466-500).
_search_root(st, depth) ==
  RootLoop(st,
           advanced_move_ordering(st.board, st.killer_moves, st.history_heuristic,
                                  generate_moves(st.board, None, 2), AI, depth, None),
           1, -Inf, None, -Inf, depth)

(* --------------------------- input boards ------------------------------ *)
\* A full board without five in a row for either side, for every board size:
\* rows read XXOOXX.., columns alternate, diagonals have runs of at most 2.
Filler(r, c) == IF ((c + 2 * r) % 4) < 2 THEN "X" ELSE "O"

FullBoard == [r \in Rows |-> [c \in Rows |-> Filler(r, c)]]

\* `board` with the cells of the set E emptied / with stone p on the cells of S.
Clear(board, E) == [r \in Rows |-> [c \in Rows |-> IF <<r, c>> \in E THEN "" ELSE board[r][c]]]
Put(board, S, p) == [r \in Rows |-> [c \in Rows |-> IF <<r, c>> \in S THEN p ELSE board[r][c]]]

\* The k cells nearest to the centre (ties row-major).
Central(k) ==
  LET mid == BOARD_SIZE \div 2
      key == [m \in Cells |-> Abs(m[1] - mid) + Abs(m[2] - mid)]
      order == SortAsc(Cells, key)
  IN {order[i] : i \in 1 .. k}

\* Late-game positions: the full board with its k most central cells empty.
Dense(k) == Clear(FullBoard, Central(k))

\* The full board with one empty cell, the second most central one: the
\* position Dense(2) becomes when its most central cell is filled.
NextToCentre == Clear(FullBoard, Central(2) \ Central(1))

\* Four in a row on row r, columns 1 .. 4, with both ends free.
Four(r) == {<<r, c>> : c \in 1 .. 4}

\* "O" to move can complete five on row 0; "X" has three on row 3.
OWins == Put(Put(EmptyBoard, Four(0), "O"), {<<3, 1>>, <<3, 2>>, <<3, 3>>}, "X")
\* "X" threatens five on row 3; "O" has three on row 0.
XThreat == Put(Put(EmptyBoard, Four(3), "X"), {<<0, 1>>, <<0, 2>>, <<0, 3>>}, "O")
\* Both sides have an open four: "O" on row 0, "X" on row 3.
BothFour == Put(Put(EmptyBoard, Four(0), "O"), Four(3), "X")
\* "X" threatens five on the edge row 0; "O" has three in the middle.
EdgeThreat == Put(Put(EmptyBoard, Four(0), "X"), {<<3, 1>>, <<3, 2>>, <<3, 3>>}, "O")

DenseBoards == {Dense(k) : k \in 0 .. MaxEmpty}
Difficulties == {"easy", "standard", "challenge"}

\* Boards whose shape is not n x n: the empty list and a board with a short row.
NoRows == <<>>
Ragged == [r \in Rows |-> IF r = 0 THEN <<>> ELSE [c \in Rows |-> 0]]

\* (board, difficulty) pairs handed to choose_best_move: the late-game
\* boards at easy and standard, the emptiest of them at challenge too, and
\* the tactical positions.
MMInputs ==
  (DenseBoards \X {"easy", "standard"})
    \cup {<<Dense(MaxEmpty), "challenge">>, <<NextToCentre, "easy">>}
    \cup ({OWins, XThreat, BothFour} \X {"standard"})

\* (board, difficulty) pairs handed to compute_ai_move, boards as views.py
\* converts them; the open positions that reach its search (OWins,
\* EdgeThreat) are given at depth 2 only.
EEInputs ==
  ({ToInts(b) : b \in DenseBoards \cup {Dense(MaxEmpty + 1), XThreat, BothFour}}
     \X Difficulties)
    \cup ({NoRows, Ragged} \X {"standard"})
    \cup ({ToInts(OWins), ToInts(EdgeThreat)} \X {"easy"})
    \cup ({ToInts(EmptyBoard)} \X Difficulties)

\* compute_ai_move keeps no state: its results on the inputs, computed once.
EEResults == [in \in EEInputs |-> compute_ai_move(in[1], in[2])]

\* (board, depth, T) triples handed to best_move of ai.py: T = -1 is
\* time_limit=None, T in 0 .. MaxTick a limit that expires after T clock
\* readings, T = MaxTick + 1 a limit that does not expire during the call.
AdvInputs ==
  {Dense(MaxEmpty)} \X {2} \X ((-1) .. (MaxTick + 1))

(* ------------------- the PvP server: its database ---------------------- *)
\* The PvP views run in the workers of the web server, several requests at
\* a time, and share one database.  A view that opens transaction.atomic()
\* and reads with select_for_update() holds the rows it read until it
\* leaves the block; every other statement is committed on its own.

MaxWorkers == 2       \* requests in progress at the same time
MaxRequests == 3      \* requests the server accepts in one run
MaxUsers == 3         \* accounts: in the tests a host, a friend and a third user

Workers == 1 .. MaxWorkers
Users == 1 .. MaxUsers

\* A null column.  Ids start at 1 and instants at 0.
NULL == -1

\* views_pvp_private.py line 49: timedelta(minutes=30), in seconds.
INVITE_TTL == 1800

\* The instants (seconds) the clock shows in a run: the start, one second
\* later, the second at which _elo_window reaches its cap of 400, and the
\* second at which an invite made at the start expires.
Instants == {0, 1, 35, INVITE_TTL}

\* models.py lines 534-599, the columns the views below read or write.
PvPGame(p1, p2, mode, status, result, board_size, is_private, invite_code, invite_expires_at, invite_used_at) ==
  [p1 |-> p1, p2 |-> p2, mode |-> mode, status |-> status, result |-> result,
   board_size |-> board_size, is_private |-> is_private, invite_code |-> invite_code,
   invite_expires_at |-> invite_expires_at, invite_used_at |-> invite_used_at]

\* models.py lines 501-531.
MatchQueueEntry(user, mode, status, elo_snapshot, created_at, matched_at, matched_game) ==
  [user |-> user, mode |-> mode, status |-> status, elo_snapshot |-> elo_snapshot,
   created_at |-> created_at, matched_at |-> matched_at, matched_game |-> matched_game]

\* models.py lines 626-655.
RematchRequest(game, requester, status, new_game) ==
  [game |-> game, requester |-> requester, status |-> status, new_game |-> new_game]

\* A database: each table is the sequence of its rows, a row's id is its
\* index; locks holds <<worker, table, id>> for every row a transaction of
\* that worker has read with select_for_update() and not yet released.
Database(games, entries, rematches, locks) ==
  [PvPGame |-> games, MatchQueueEntry |-> entries, RematchRequest |-> rematches,
   locks |-> locks]

EmptyDatabase == Database(<<>>, <<>>, <<>>, {})

\* What a worker is doing: the view it runs, the user of the request, the
\* request's argument, the objects the view has loaded (obj), and, once the
\* view has returned, the status and the body of the response.
Request(pc, view, user, arg, obj, status, body) ==
  [pc |-> pc, view |-> view, user |-> user, arg |-> arg, obj |-> obj,
   status |-> status, body |-> body]

NoRequest == Request("idle", "", NULL, <<>>, <<>>, 0, <<>>)

(* ------------------------------ state ---------------------------------- *)
VARIABLES
  engine,                 \* the engine this process serves: "mm", "adv" or "ee"
  ses,                    \* per caller: the position of its top-level call
  _transposition_table,   \* minimax_engine.py module state (line 48)
  _history_table,         \* minimax_engine.py module state (line 51)
  _killer_moves,          \* minimax_engine.py module state (line 54)
  _global_ai,             \* ai.py line 536: the tables of the shared instance
  probe,                  \* a function called on its own: its arguments, then its result
  db,                     \* the committed rows of the PvP tables, and the row locks
  req,                    \* per worker: the PvP request it is serving
  now,                    \* timezone.now(), in seconds
  served                  \* the number of PvP requests accepted so far

vars == <<engine, ses, _transposition_table, _history_table, _killer_moves,
          _global_ai, probe, db, req, now, served>>

\* The state of the PvP server, and its value while the server is not used.
pvpVars == <<db, req, now, served>>
PvPIdle ==
  /\ db = EmptyDatabase
  /\ req = [w \in Workers |-> NoRequest]
  /\ now = 0
  /\ served = 0

\* The state outside the three engines, and its value while an engine runs.
otherVars == <<probe, db, req, now, served>>
NoProbe == [pc |-> "none"]
OthersIdle == probe = NoProbe /\ PvPIdle

\* The callers (threads of the server), numbered in the order in which
\* they make their top-level call.
Callers == 1 .. MaxCalls

\* Caller s makes its call now: it has not called yet and is next in line.
MayCall(s) == ses[s].pc = "idle" /\ \A t \in Callers : t < s => ses[t].pc # "idle"

\* A caller with no call in progress.
\*   board       the caller's board object, as the call has left it so far
\*   entry       the board as it was handed in
\*   via         the path by which the call returned
\*   overlapped  another caller's search was in progress during this call
Idle ==
  [pc |-> "idle", board |-> EmptyBoard, entry |-> EmptyBoard, difficulty |-> "",
   max_depth |-> 0, depth |-> 0, best_move |-> None, best_score |-> 0, done |-> 0,
   T |-> -1, checks |-> 0, via |-> "", overlapped |-> FALSE, ret |-> RetNone]

ZeroHistory == [r \in Rows |-> [c \in Rows |-> 0]]

\* AdvancedGomokuAI.__init__ (ai.py lines 85-102).
NewAI ==
  [transposition_table |-> <<>>, killer_moves |-> <<>>, history_heuristic |-> <<>>,
   nodes |-> 0, cutoffs |-> 0, eval_calls |-> 0]

\* Some other caller is inside its iterative-deepening loop.
OtherRunning(s) == \E t \in Callers \ {s} : ses[t].pc = "loop"

\* The callers other than s, marked as overlapped when s starts searching.
MarkOthers(f, s) ==
  [t \in Callers |->
     IF t # s /\ f[t].pc = "loop" THEN [f[t] EXCEPT !.overlapped = TRUE] ELSE f[t]]

(* ---- choose_best_move (lines 493-590), one caller s ---- *)

\* Noise values random.randint(-noise, noise) can yield: both ends and 0.
NoiseOf(s) ==
  LET noise == DIFFICULTY_PARAMS(ses[s].difficulty).noise
  IN IF noise > 0 THEN {-noise, 0, noise} ELSE {0}

\* What the soft time check can find: only standard and challenge have one.
LateOf(s) == IF ses[s].difficulty \in {"standard", "challenge"} THEN BOOLEAN ELSE {FALSE}

\* Lines 574-590: the emergency fallback, the noise and the returned dict.
\* z is the value random.randint(-noise, noise) yields.
MMReturn(board, hist, params, best_move, best_score, z) ==
  LET moves == _generate_moves(board, hist, "O", "X", params.radius, params.max_candidates)
      move == IF best_move = None THEN moves[1] ELSE best_move
      score == IF params.noise > 0 THEN AddInf(best_score, z) ELSE best_score
  IN IF best_move = None /\ Len(moves) = 0 THEN RetNone
     ELSE IF score = Inf \/ score = -Inf THEN RetRaise   \* int(inf): OverflowError
     ELSE RetMove(move[1], move[2], score, params.max_depth)

\* Lines 499-535: the call starts; a tactical shortcut returns at once.
MMCall(s, board, difficulty) ==
  LET d == IF difficulty \in {"easy", "standard", "challenge"} THEN difficulty ELSE "standard"
      win_move == _find_immediate_win(board, "O")
      block_move == _find_immediate_win(board, "X")
      started == [Idle EXCEPT !.board = board, !.entry = board, !.difficulty = d,
                              !.max_depth = DIFFICULTY_PARAMS(d).max_depth]
      clear == Cardinality(DOMAIN _transposition_table) > TT_CLEAR_LIMIT
  IN /\ engine = "mm"
     /\ MayCall(s)
     /\ IF win_move # None
        THEN /\ ses' = [ses EXCEPT ![s] =
                          [started EXCEPT !.pc = "returned", !.via = "shortcut",
                             !.ret = RetMove(win_move[1], win_move[2], PATTERN_SCORES(WIN), 0)]]
             /\ UNCHANGED <<_transposition_table, _killer_moves>>
        ELSE IF block_move # None
        THEN /\ ses' = [ses EXCEPT ![s] =
                          [started EXCEPT !.pc = "returned", !.via = "shortcut",
                             !.ret = RetMove(block_move[1], block_move[2],
                                             PATTERN_SCORES(WIN) - 1, 0)]]
             /\ UNCHANGED <<_transposition_table, _killer_moves>>
        ELSE /\ ses' = [MarkOthers(ses, s) EXCEPT ![s] =
                          [started EXCEPT !.pc = "loop", !.depth = 1, !.best_score = -Inf,
                                          !.overlapped = OtherRunning(s)]]
             /\ _transposition_table' = IF clear THEN <<>> ELSE _transposition_table
             /\ _killer_moves' = IF clear THEN <<>> ELSE _killer_moves
     /\ UNCHANGED <<engine, _history_table, _global_ai>>
     /\ UNCHANGED otherVars

\* Lines 538-557: the search of one pass of the loop at the given depth, on
\* the given tables; fault names the _minimax call of the pass that raises
\* (0: none).
MMPass(board, entry, difficulty, depth, best_score, tt, hist, killers, fault) ==
  LET params == DIFFICULTY_PARAMS(difficulty)
      P == [player |-> "O", opponent |-> "X", max_candidates |-> params.max_candidates,
            radius |-> params.radius, fault |-> fault]
      st == [board |-> board, tt |-> tt, hist |-> hist, killers |-> killers,
             n |-> 0, exc |-> FALSE]
      node_hash == _zobrist_hash(entry)
  IN IF depth = 1
     THEN _minimax(st, 1, -Inf, Inf, TRUE, P, node_hash, 0)
     ELSE _aspiration_search(st, depth, best_score, P, node_hash)

\* The pass caller s is about to run, on the module-level tables.
MMSearch(s, fault) ==
  MMPass(ses[s].board, ses[s].entry, ses[s].difficulty, ses[s].depth, ses[s].best_score,
         _transposition_table, _history_table, _killer_moves, fault)

\* Lines 537-590: one pass of the iterative-deepening loop and, when the loop
\* ends with it, the return.
\*   late   what the soft time check of lines 565-568 finds
\*   z      the noise drawn at line 583
MMLoopBody(s, res, late, z) ==
  LET me == ses[s]
      params == DIFFICULTY_PARAMS(me.difficulty)
      got == ~res.st.exc /\ res.move # None
      best_move == IF got THEN res.move ELSE me.best_move
      best_score == IF got THEN res.score ELSE me.best_score
      timed == me.difficulty \in {"standard", "challenge"} /\ late
      stop == res.st.exc \/ timed \/ me.depth = params.max_depth
      after == [me EXCEPT !.board = res.st.board, !.best_move = best_move,
                          !.best_score = best_score,
                          !.done = IF res.st.exc THEN me.done ELSE me.depth]
  IN /\ _transposition_table' = res.st.tt
     /\ _history_table' = res.st.hist
     /\ _killer_moves' = res.st.killers
     /\ ses' = [ses EXCEPT ![s] =
                  IF stop
                  THEN [after EXCEPT !.pc = "returned",
                          !.via = IF res.st.exc THEN "exception"
                                  ELSE IF timed THEN "time" ELSE "search",
                          !.ret = MMReturn(res.st.board, res.st.hist, params,
                                           best_move, best_score, z)]
                  ELSE [after EXCEPT !.depth = me.depth + 1]]
     /\ UNCHANGED <<engine, _global_ai>>
     /\ UNCHANGED otherVars

\* Caller s runs one pass of the loop; the _minimax call numbered `fault`
\* of the pass raises (0: none does).
MMIterate(s, fault) ==
  /\ engine = "mm"
  /\ ses[s].pc = "loop"
  /\ \E res \in {MMSearch(s, fault)} :
       /\ fault = 0 \/ res.st.exc
       /\ \E late \in LateOf(s), z \in NoiseOf(s) : MMLoopBody(s, res, late, z)

(* ---- best_move of ai.py (lines 504-550), one caller s ---- *)

\* The search state of the shared instance as caller s sees it.
AdvState(s, ai) ==
  [board |-> ses[s].board, transposition_table |-> ai.transposition_table,
   killer_moves |-> ai.killer_moves, history_heuristic |-> ai.history_heuristic,
   nodes |-> ai.nodes, cutoffs |-> ai.cutoffs, eval_calls |-> ai.eval_calls,
   T |-> ses[s].T, checks |-> ses[s].checks]

\* The fields of the shared instance after a search left the state st.
AdvKeep(st) ==
  [transposition_table |-> st.transposition_table, killer_moves |-> st.killer_moves,
   history_heuristic |-> st.history_heuristic, nodes |-> st.nodes,
   cutoffs |-> st.cutoffs, eval_calls |-> st.eval_calls]

\* What the module-level best_move hands back (line 549-550): the move alone.
AdvRet(move, score, depth) ==
  IF move = None THEN RetNone ELSE RetMove(move[1], move[2], score, depth)

\* Lines 514-525 (and 451-455): the call starts; without a time limit the
\* whole fixed-depth search runs and the call returns.
AdvCall(s, board, depth, T) ==
  LET started == [Idle EXCEPT !.board = board, !.entry = board, !.max_depth = depth,
                              !.T = T]
      fresh == [_global_ai EXCEPT !.nodes = 0, !.cutoffs = 0, !.eval_calls = 0,
                                  !.transposition_table = <<>>]
      st == [AdvState(s, fresh) EXCEPT !.board = board, !.T = T, !.checks = 0]
  IN /\ engine = "adv"
     /\ MayCall(s)
     /\ IF T < 0
        THEN \E res \in {_search_root(st, depth)} :
               /\ _global_ai' = AdvKeep(res.st)
               /\ ses' = [MarkOthers(ses, s) EXCEPT ![s] =
                            [started EXCEPT !.pc = "returned", !.via = "search",
                               !.board = res.st.board, !.done = depth,
                               !.overlapped = OtherRunning(s),
                               !.ret = AdvRet(res.move, res.val, depth)]]
        ELSE /\ _global_ai' = fresh
             /\ ses' = [MarkOthers(ses, s) EXCEPT ![s] =
                          [started EXCEPT !.pc = "loop", !.depth = 1,
                                          !.overlapped = OtherRunning(s)]]
     /\ UNCHANGED <<engine, _transposition_table, _history_table, _killer_moves>>
     /\ UNCHANGED otherVars

\* Lines 458-464: what iterative_deepening does with the result res of the
\* pass at depth ses[s].depth and, when the loop ends with it, the return.
AdvLoopBody(s, res) ==
  LET me == ses[s]
      end == Tick(res.st)
      over == TimeOver(end)
      best_move == IF over THEN me.best_move ELSE res.move
      best_score == IF over THEN me.best_score ELSE res.val
      stop == over \/ me.depth = me.max_depth
      after == [me EXCEPT !.board = end.board, !.checks = end.checks,
                          !.best_move = best_move, !.best_score = best_score,
                          !.done = IF over THEN me.done ELSE me.depth]
  IN /\ _global_ai' = AdvKeep(end)
     /\ ses' = [ses EXCEPT ![s] =
                  IF stop
                  THEN [after EXCEPT !.pc = "returned",
                          !.via = IF over THEN "time" ELSE "search",
                          !.ret = AdvRet(best_move, best_score, me.max_depth)]
                  ELSE [after EXCEPT !.depth = me.depth + 1]]
     /\ UNCHANGED <<engine, _transposition_table, _history_table, _killer_moves>>
     /\ UNCHANGED otherVars

\* iterative_deepening lines 457-464: one pass of the loop at depth
\* ses[s].depth, the killer moves cleared first.
AdvIterate(s) ==
  /\ engine = "adv"
  /\ ses[s].pc = "loop"
  /\ \E res \in {_search_root([AdvState(s, _global_ai) EXCEPT !.killer_moves = <<>>],
                              ses[s].depth)} :
       AdvLoopBody(s, res)

(* ---- compute_ai_move of engine_engine.py (lines 194-264), one caller s ---- *)

\* The whole call: it keeps no state between calls; ret is one of the
\* results random.choice (line 263) allows.
EECall(s, board, difficulty) ==
  /\ engine = "ee"
  /\ MayCall(s)
  /\ \E ret \in EEResults[<<board, difficulty>>] :
       ses' = [ses EXCEPT ![s] =
                 [Idle EXCEPT !.pc = "returned", !.board = board, !.entry = board,
                              !.difficulty = difficulty, !.via = "search",
                              !.max_depth = _difficulty_to_depth(difficulty),
                              !.ret = ret]]
  /\ UNCHANGED <<engine, _transposition_table, _history_table, _killer_moves, _global_ai>>
  /\ UNCHANGED otherVars

(* --------------------------- specification ----------------------------- *)
Init ==
  /\ engine \in {"mm", "adv", "ee"}
  /\ ses = [s \in Callers |-> Idle]
  /\ _transposition_table = <<>>
  /\ _history_table = ZeroHistory
  /\ _killer_moves = <<>>
  /\ _global_ai = NewAI
  /\ OthersIdle

Next ==
  \E s \in Callers :
    \/ \E in \in MMInputs : MMCall(s, in[1], in[2])
    \/ \E fault \in 0 .. MaxFault : MMIterate(s, fault)
    \/ \E in \in AdvInputs : AdvCall(s, in[1], in[2], in[3])
    \/ AdvIterate(s)
    \/ \E in \in EEInputs : EECall(s, in[1], in[2])

Spec == Init /\ [][Next]_vars

(* ------------------------------ claims --------------------------------- *)
Returned(s) == ses[s].pc = "returned"

\* The engine's own stone, the opponent's, and an empty cell, as the serving
\* engine writes them.
Stone == IF engine = "ee" THEN -1 ELSE "O"
Foe == IF engine = "ee" THEN 1 ELSE "X"
Blank == IF engine = "ee" THEN 0 ELSE ""

\* The board is BOARD_SIZE x BOARD_SIZE.
WellFormed(board) == DOMAIN board = Rows /\ \A r \in Rows : DOMAIN board[r] = Rows

\* The empty cells of a well-formed board.
EmptyCells(board) == {m \in Cells : board[m[1]][m[2]] = Blank}

\* The empty cells at which a stone v completes five or more in a row: some
\* window of five cells on a line through the cell holds v everywhere else.
Completing(board, v) ==
  {m \in EmptyCells(board) :
     \E k \in 1 .. 4, off \in 0 .. (WIN_LEN - 1) :
       \A j \in 0 .. (WIN_LEN - 1) :
         LET r == m[1] + (j - off) * DIRS[k][1]
             c == m[2] + (j - off) * DIRS[k][2]
         IN r \in Rows /\ c \in Rows /\ (j = off \/ board[r][c] = v)}

\* The cell a returned move names.
MoveOf(ret) == <<ret.row, ret.col>>

\* C1: on a board where the engine's player can complete five in a row,
\* choose_best_move and compute_ai_move return one of the completing cells.
C1_WinTaken ==
  \A s \in Callers :
    (/\ Returned(s)
     /\ engine \in {"mm", "ee"}
     /\ WellFormed(ses[s].entry)
     /\ Completing(ses[s].entry, Stone) # {})
    => (/\ ses[s].ret.kind = "move"
        /\ MoveOf(ses[s].ret) \in Completing(ses[s].entry, Stone))

\* C2: on a board where the opponent can complete five in a row and the
\* engine's player cannot, the returned move occupies a cell at which the
\* opponent would have completed five.
C2_ThreatBlocked ==
  \A s \in Callers :
    (/\ Returned(s)
     /\ engine \in {"mm", "ee"}
     /\ WellFormed(ses[s].entry)
     /\ Completing(ses[s].entry, Foe) # {}
     /\ Completing(ses[s].entry, Stone) = {})
    => (/\ ses[s].ret.kind = "move"
        /\ MoveOf(ses[s].ret) \in Completing(ses[s].entry, Foe))

\* C3: when a top-level call has returned (a move or no move, by whatever
\* path), every cell of the caller's board holds the value it held before
\* the call.
C3_BoardRestored ==
  \A s \in Callers :
    (Returned(s) /\ ses[s].ret.kind # "raise") => ses[s].board = ses[s].entry

\* C4: a returned move names a cell that is inside the input board and empty
\* on it, whatever the input board (full or of invalid shape included).
C4_MoveLegal ==
  \A s \in Callers :
    (Returned(s) /\ ses[s].ret.kind = "move")
    => LET b == ses[s].entry
           m == MoveOf(ses[s].ret)
       IN /\ m[1] \in DOMAIN b
          /\ m[2] \in DOMAIN b[m[1]]
          /\ b[m[1]][m[2]] = Blank

\* C5: when an exception ended an iterative-deepening pass of
\* choose_best_move, the call raises nothing and returns the best move of the
\* deepest completed pass or, when no pass completed, the highest-ranked raw
\* candidate.
C5_ExceptionFallback ==
  \A s \in Callers :
    (engine = "mm" /\ Returned(s) /\ ses[s].via = "exception")
    => LET params == DIFFICULTY_PARAMS(ses[s].difficulty)
           raw == _generate_moves(ses[s].entry, _history_table, "O", "X",
                                  params.radius, params.max_candidates)
       IN /\ ses[s].ret.kind = "move"
          /\ ses[s].done > 0 => MoveOf(ses[s].ret) = ses[s].best_move
          /\ ses[s].done = 0 => MoveOf(ses[s].ret) = raw[1]

\* C6: when the soft time check fires in the pass at depth d of an iterative
\* deepening (ai.py iterative_deepening, choose_best_move), the result of that
\* pass is discarded: the call returns what the passes before it left, so
\* best_move and best_score are those of the last pass kept before.
C6_CutPassDiscarded ==
  [][\A s \in Callers :
       (ses[s].pc = "loop" /\ ses'[s].pc = "returned" /\ ses'[s].via = "time")
       => /\ ses'[s].best_move = ses[s].best_move
          /\ ses'[s].best_score = ses[s].best_score
          /\ ses'[s].done = ses[s].done]_vars

\* C7: a time-limited call of best_move (ai.py) on a board with an empty cell
\* returns a move, however early the limit expires.
C7_TimedCallReturnsMove ==
  \A s \in Callers :
    (/\ engine = "adv"
     /\ Returned(s)
     /\ ses[s].T >= 0
     /\ EmptyCells(ses[s].entry) # {})
    => ses[s].ret.kind = "move"

\* C8: two calls with the same board and the same difficulty (for ai.py: the
\* same depth and time limit) that ran their search to the end return the
\* same move, whatever the tables held and whatever random.choice drew.
C8_SameInputSameMove ==
  \A s, t \in Callers :
    (/\ Returned(s) /\ Returned(t)
     /\ ses[s].via \in {"search", "shortcut"} /\ ses[t].via \in {"search", "shortcut"}
     /\ ses[s].entry = ses[t].entry
     /\ ses[s].difficulty = ses[t].difficulty
     /\ ses[s].max_depth = ses[t].max_depth
     /\ ses[s].T = ses[t].T)
    => (/\ ses[s].ret.kind = ses[t].ret.kind
        /\ MoveOf(ses[s].ret) = MoveOf(ses[t].ret))

\* choose_best_move run alone from the tables as constructed: the passes of
\* lines 537-572 one after the other, nothing raised, the clock never late;
\* its value is what lines 574-590 return when the noise drawn is z.
RECURSIVE AloneLoop(_, _, _, _, _, _, _, _)
AloneLoop(board, difficulty, depth, best_move, best_score, tt, hist, killers) ==
  LET params == DIFFICULTY_PARAMS(difficulty)
      res == MMPass(board, board, difficulty, depth, best_score, tt, hist, killers, 0)
      got == res.move # None
      move == IF got THEN res.move ELSE best_move
      score == IF got THEN res.score ELSE best_score
  IN IF depth = params.max_depth
     THEN [move |-> move, score |-> score, hist |-> res.st.hist]
     ELSE AloneLoop(board, difficulty, depth + 1, move, score,
                    res.st.tt, res.st.hist, res.st.killers)

Alone(board, difficulty, z) ==
  LET end == AloneLoop(board, difficulty, 1, None, -Inf, <<>>, ZeroHistory, <<>>)
  IN MMReturn(board, end.hist, DIFFICULTY_PARAMS(difficulty), end.move, end.score, z)

\* C9: a search of choose_best_move that ran while another caller's search
\* of a different board was running returns what it returns when run alone.
\* Stated for the caller that started first, on the tables as constructed,
\* and whose search ran to its last pass: its result is the result of the
\* same call run alone on tables of its own, for some value of the noise.
C9_ConcurrentSearchesIndependent ==
  \A s \in Callers :
    (/\ engine = "mm"
     /\ \A t \in Callers : s <= t
     /\ Returned(s)
     /\ ses[s].via = "search"
     /\ ses[s].overlapped
     /\ \A t \in Callers \ {s} : ses[t].entry # ses[s].entry)
    => \E z \in NoiseOf(s) : ses[s].ret = Alone(ses[s].entry, ses[s].difficulty, z)

\* C10: on a well-formed board with no empty cell, choose_best_move and
\* compute_ai_move return no cell and raise nothing.
C10_FullBoardNoMove ==
  \A s \in Callers :
    (/\ engine \in {"mm", "ee"}
     /\ Returned(s)
     /\ WellFormed(ses[s].entry)
     /\ EmptyCells(ses[s].entry) = {})
    => ses[s].ret.kind = "none"

\* The empty cells a board of any shape has, and the first of them in
\* row-major order (None when there is none).
EmptyOfAnyShape(board) ==
  {m \in Cells : /\ m[1] \in DOMAIN board
                 /\ m[2] \in DOMAIN board[m[1]]
                 /\ board[m[1]][m[2]] = Blank}

FirstEmptyOf(board) ==
  IF EmptyOfAnyShape(board) = {} THEN None
  ELSE CHOOSE m \in EmptyOfAnyShape(board) :
         \A k \in EmptyOfAnyShape(board) : RowMajor(m) <= RowMajor(k)

\* C11: on a malformed board (not square, or rows of unequal length)
\* compute_ai_move raises nothing and returns the fallback response: the
\* first empty cell in row-major order, reported with depth 0.
C11_MalformedFallback ==
  \A s \in Callers :
    (/\ engine = "ee"
     /\ Returned(s)
     /\ ~WellFormed(ses[s].entry))
    => (/\ ses[s].ret.kind = "move"
        /\ ses[s].ret.depth = 0
        /\ FirstEmptyOf(ses[s].entry) # None
             => MoveOf(ses[s].ret) = FirstEmptyOf(ses[s].entry))

\* compute_ai_move returned by one of its tactical shortcuts (lines 227-237):
\* some candidate completes five for the AI or for the human.
EETactical(board) ==
  /\ WellFormed(board)
  /\ _has_any_stone(board)
  /\ LET moves == _candidate_moves(board, 24, 2)
     IN \E i \in 1 .. Len(moves), p \in {-1, 1} :
          _is_winning_move(board, moves[i][1], moves[i][2], p)

\* C12: the depth reported with a move is the deepest iterative-deepening
\* depth the call completed, and 0 when a tactical shortcut returned without
\* searching.
C12_DepthReported ==
  \A s \in Callers :
    (Returned(s) /\ ses[s].ret.kind = "move")
    => /\ engine = "mm"
          => ses[s].ret.depth = (IF ses[s].via = "shortcut" THEN 0 ELSE ses[s].done)
       /\ (engine = "ee" /\ EETactical(ses[s].entry)) => ses[s].ret.depth = 0

(* ================= functions called on their own ======================= *)

(* ---- game/services/pvp_rules.py ---- *)

\* check_winner_from_last_move (lines 23-60); the two while loops are those
\* of has_five.
check_winner_from_last_move(board, row, col, player, win_len) ==
  LET n == PyLen(board)
  IN /\ in_bounds(row, col, n)
     /\ board[row][col] = player
     /\ \E k \in 1 .. 4 :
          1 + CountFrom(board, row, col, DIRS[k][1], DIRS[k][2], player)
            + CountFrom(board, row, col, -DIRS[k][1], -DIRS[k][2], player) >= win_len

(* ---- game/services/pvp_rules.py: the full-board check ---- *)
\* The stones of `player` on the line through (row, col) along DIRS[k], from
\* the backward end to the forward end (lines 87-98).
LineThrough(board, row, col, k, player) ==
  LET back == CountFrom(board, row, col, -DIRS[k][1], -DIRS[k][2], player)
      forward == CountFrom(board, row, col, DIRS[k][1], DIRS[k][2], player)
  IN [i \in 1 .. (back + forward + 1) |->
        <<row + (i - 1 - back) * DIRS[k][1], col + (i - 1 - back) * DIRS[k][2]>>]

\* find_winning_line_from_last_move: the cells of the first line of at least
\* win_len stones through (row, col), or the empty list for None.
find_winning_line_from_last_move(board, row, col, player, win_len) ==
  LET n == PyLen(board)
      long == {k \in 1 .. 4 : Len(LineThrough(board, row, col, k, player)) >= win_len}
  IN IF ~in_bounds(row, col, n) THEN <<>>
     ELSE IF board[row][col] # player THEN <<>>
     ELSE IF long = {} THEN <<>>
     ELSE LineThrough(board, row, col, CHOOSE k \in long : \A j \in long : k <= j, player)

is_draw(board) == \A m \in NCells(PyLen(board)) : board[m[1]][m[2]] # ""

\* check_winner_board (lines 104-147); last_move is a cell or None, the
\* winner "X", "O" or "" for None.
check_winner_board(board, win_len, last_move) ==
  LET n == PyLen(board)
      hinted == /\ last_move # None
                /\ in_bounds(last_move[1], last_move[2], n)
                /\ board[last_move[1]][last_move[2]] \in {"X", "O"}
                /\ find_winning_line_from_last_move(
                     board, last_move[1], last_move[2],
                     board[last_move[1]][last_move[2]], win_len) # <<>>
      on == {m \in NCells(n) :
               /\ board[m[1]][m[2]] \in {"X", "O"}
               /\ find_winning_line_from_last_move(board, m[1], m[2], board[m[1]][m[2]],
                                                   win_len) # <<>>}
      first == CHOOSE x \in on : \A y \in on : x[1] * n + x[2] <= y[1] * n + y[2]
  IN IF n = 0 THEN [winner |-> "", winning_line |-> <<>>, draw |-> FALSE]
     ELSE IF hinted
       THEN [winner |-> board[last_move[1]][last_move[2]],
             winning_line |-> find_winning_line_from_last_move(
                                board, last_move[1], last_move[2],
                                board[last_move[1]][last_move[2]], win_len),
             draw |-> FALSE]
     ELSE IF on # {}
       THEN [winner |-> board[first[1]][first[2]],
             winning_line |-> find_winning_line_from_last_move(
                                board, first[1], first[2], board[first[1]][first[2]], win_len),
             draw |-> FALSE]
     ELSE [winner |-> "", winning_line |-> <<>>, draw |-> is_draw(board)]

(* ---- the boards and arguments of the calls ---- *)

\* `len` stones of p from (r, c) on along DIRS[k], on the empty board.
Run(k, len, r, c, p) ==
  Put(EmptyBoard, {<<r + j * DIRS[k][1], c + j * DIRS[k][2]>> : j \in 0 .. (len - 1)}, p)

\* Boards for the winner checks: runs of four, five and six stones along
\* each direction, the tactical positions and full boards without a five.
RunBoards ==
  {Run(k, len, 0, IF k = 4 THEN BOARD_SIZE - 1 ELSE 0, p) :
     k \in 1 .. 4, len \in 4 .. BOARD_SIZE, p \in {"X", "O"}}
    \cup {Run(2, 5, 3, 1, "X"), BothFour, OWins, FullBoard, Dense(1)}

\* has_five and check_winner_from_last_move are asked about every cell and
\* both players.
WinnerProbes ==
  {[pc |-> "call", fn |-> "winner", board |-> b, row |-> m[1], col |-> m[2], player |-> p] :
     b \in RunBoards, m \in Cells, p \in {"X", "O"}}

\* The two winner checks are run on the arguments of the probe.
WinnerCall ==
  /\ probe.pc = "call"
  /\ probe.fn = "winner"
  /\ probe' = [pc |-> "done", fn |-> "winner", board |-> probe.board, row |-> probe.row,
               col |-> probe.col, player |-> probe.player,
               last |-> check_winner_from_last_move(probe.board, probe.row, probe.col,
                                                    probe.player, WIN_LEN),
               five |-> has_five(probe.board, probe.row, probe.col, probe.player)]
  /\ UNCHANGED <<engine, ses, _transposition_table, _history_table, _killer_moves, _global_ai>>
  /\ UNCHANGED pvpVars

\* Boards for the static evaluation: one stone anywhere, the tactical
\* positions (fewer than 10 stones) and the late-game boards.
EvalBoards ==
  {Put(EmptyBoard, {m}, p) : m \in Cells, p \in {"X", "O"}}
    \cup {EmptyBoard, OWins, XThreat, BothFour, EdgeThreat, FullBoard, NextToCentre}
    \cup DenseBoards

EvalProbes == {[pc |-> "call", fn |-> "evaluate", board |-> b] : b \in EvalBoards}

\* _evaluate_position is called for either side of the board of the probe.
EvaluateCall ==
  /\ probe.pc = "call"
  /\ probe.fn = "evaluate"
  /\ probe' = [pc |-> "done", fn |-> "evaluate", board |-> probe.board,
               for_O |-> _evaluate_position(probe.board, "O", "X"),
               for_X |-> _evaluate_position(probe.board, "X", "O")]
  /\ UNCHANGED <<engine, ses, _transposition_table, _history_table, _killer_moves, _global_ai>>
  /\ UNCHANGED pvpVars

(* ---- game/ai/difficulty.py, game/ai/ai_router.py ---- *)

\* DIFFICULTY_MAP (difficulty.py lines 12-16); temperature in hundredths.
DIFFICULTY_MAP(difficulty) ==
  CASE difficulty = "easy" -> [depth |-> 1, time_limit_ms |-> 250, temperature |-> 70]
    [] difficulty = "standard" -> [depth |-> 2, time_limit_ms |-> 500, temperature |-> 40]
    [] difficulty = "challenge" -> [depth |-> 3, time_limit_ms |-> 900, temperature |-> 15]

\* get_difficulty_config (difficulty.py lines 18-21); a missing name (None
\* or the empty string) is written "".
get_difficulty_config(difficulty) ==
  IF difficulty = "" THEN DIFFICULTY_MAP("standard")
  ELSE IF difficulty \in {"easy", "standard", "challenge"} THEN DIFFICULTY_MAP(difficulty)
  ELSE DIFFICULTY_MAP("standard")

\* _depth_from_difficulty (ai_router.py lines 64-69).
_depth_from_difficulty(difficulty) ==
  IF difficulty = "easy" THEN 1
  ELSE IF difficulty = "standard" THEN 2
  ELSE 4

\* pick_ai_move with engine_id "engine" (ai_router.py lines 84-88): the
\* difficulty compute_ai_move is called with.
pick_ai_move_difficulty(difficulty) == IF difficulty = "" THEN "standard" ELSE difficulty

\* Difficulty names handed to the entry points: the three profiles, an
\* unknown name and a missing one.
DifficultyNames == Difficulties \cup {"expert", ""}

DifficultyProbes == {[pc |-> "call", fn |-> "difficulty", name |-> d] : d \in DifficultyNames}

\* Every entry point resolves the difficulty name of the probe.
DifficultyCall ==
  /\ probe.pc = "call"
  /\ probe.fn = "difficulty"
  /\ probe' = [pc |-> "done", fn |-> "difficulty", name |-> probe.name,
               params |-> DIFFICULTY_PARAMS(probe.name),
               config |-> get_difficulty_config(probe.name),
               engine_depth |-> _difficulty_to_depth(IF probe.name = "" THEN "standard"
                                                     ELSE probe.name),
               router_depth |-> _difficulty_to_depth(pick_ai_move_difficulty(probe.name)),
               stub_depth |-> _depth_from_difficulty(probe.name)]
  /\ UNCHANGED <<engine, ses, _transposition_table, _history_table, _killer_moves, _global_ai>>
  /\ UNCHANGED pvpVars

\* Boards where both players have five: "O" on row 0 and "X" on row 3,
\* "X" on row 0 and "O" on row 3, "X" on column 0 and "O" on column 5.
TwoFives ==
  {Put(Run(2, 5, 0, 0, "O"), {<<3, c>> : c \in 1 .. 5}, "X"),
   Put(Run(2, 5, 0, 1, "X"), {<<3, c>> : c \in 0 .. 4}, "O"),
   Put(Run(1, 5, 1, 0, "X"), {<<r, 5>> : r \in 0 .. 4}, "O")}

\* A board of board_size BOARD_SIZE + 1 (Game.board_size is any integer the
\* request gives, views._build_board builds the board of that size) with five
\* "X" on its last row.
WideBoard ==
  [r \in 0 .. BOARD_SIZE |->
     [c \in 0 .. BOARD_SIZE |-> IF r = BOARD_SIZE /\ c < WIN_LEN THEN "X" ELSE ""]]

\* None of the Python functions as the string "".
NoneAsEmpty(w) == IF None = w THEN "" ELSE w

\* The full-board winner checks are asked about a board; check_winner_board
\* also with the hint `last`.
BoardWinnerProbes ==
  {[pc |-> "call", fn |-> "winners", board |-> b, last |-> m] :
     b \in RunBoards \cup TwoFives \cup {EmptyBoard, XThreat, WideBoard}, m \in Cells}

BoardWinnerCall ==
  /\ probe.pc = "call"
  /\ probe.fn = "winners"
  /\ probe' = [pc |-> "done", fn |-> "winners", board |-> probe.board, last |-> probe.last,
               minimax |-> NoneAsEmpty(_check_winner(probe.board)),
               advanced |-> NoneAsEmpty(check_win(probe.board)),
               rules |-> check_winner_board(probe.board, WIN_LEN, None).winner,
               hinted |-> check_winner_board(probe.board, WIN_LEN, probe.last).winner]
  /\ UNCHANGED <<engine, ses, _transposition_table, _history_table, _killer_moves, _global_ai>>
  /\ UNCHANGED pvpVars

FnInit ==
  /\ engine = "none"
  /\ ses = [s \in Callers |-> Idle]
  /\ _transposition_table = <<>>
  /\ _history_table = ZeroHistory
  /\ _killer_moves = <<>>
  /\ _global_ai = NewAI
  /\ probe \in WinnerProbes \cup EvalProbes \cup DifficultyProbes \cup BoardWinnerProbes
  /\ PvPIdle

FnNext ==
  \/ WinnerCall
  \/ EvaluateCall
  \/ DifficultyCall
  \/ BoardWinnerCall

FnSpec == FnInit /\ [][FnNext]_vars

\* Cell (r, c) holds p and lies on a straight run of five or more stones of p.
OnFive(board, r, c, p) ==
  /\ board[r][c] = p
  /\ \E k \in 1 .. 4, off \in 0 .. (WIN_LEN - 1) :
       \A j \in 0 .. (WIN_LEN - 1) :
         LET rr == r + (j - off) * DIRS[k][1]
             cc == c + (j - off) * DIRS[k][2]
         IN rr \in Rows /\ cc \in Rows /\ board[rr][cc] = p

\* The board holds a run of five or more stones of one player.
SomeFive(board) == \E m \in Cells, p \in {"X", "O"} : OnFive(board, m[1], m[2], p)

\* C13: check_winner_from_last_move and has_five answer true for player p at
\* a cell that holds p and lies on a run of five or more stones of p, and
\* false for every cell and player on a board without such a run.
C13_WinnerAtLastMove ==
  (probe.pc = "done" /\ probe.fn = "winner")
  => /\ OnFive(probe.board, probe.row, probe.col, probe.player)
          => (probe.last /\ probe.five)
     /\ ~SomeFive(probe.board) => (~probe.last /\ ~probe.five)

\* C14: on a board where neither player has five in a row the static
\* evaluation is antisymmetric: the value for one side is the negation of
\* the value for the other, with or without the early-game centre bonus.
C14_EvaluationAntisymmetric ==
  (/\ probe.pc = "done"
   /\ probe.fn = "evaluate"
   /\ _check_winner(probe.board) = None)
  => probe.for_O = -probe.for_X

\* C15: every entry point that takes a difficulty name gives an unknown or
\* missing name the parameters of the "standard" profile.
C15_UnknownDifficultyIsStandard ==
  (/\ probe.pc = "done"
   /\ probe.fn = "difficulty"
   /\ probe.name \notin Difficulties)
  => /\ probe.params = DIFFICULTY_PARAMS("standard")
     /\ probe.config = DIFFICULTY_MAP("standard")
     /\ probe.engine_depth = _difficulty_to_depth("standard")
     /\ probe.router_depth = _difficulty_to_depth("standard")
     /\ probe.stub_depth = _depth_from_difficulty("standard")

(* ============== the opening move: searches of the empty board ========== *)

\* The soft time limit of a search of the open board is found exceeded after
\* the pass at this depth at the latest.
MaxLate == 4

\* The calls of choose_best_move: the empty board at every difficulty, and a
\* late-game board whose search leaves other entries in the tables.
OpeningInputs == ({EmptyBoard} \X Difficulties) \cup {<<Dense(MaxEmpty), "easy">>}

\* A call that starts when no other search is in progress: the tables hold
\* what earlier searches left.
OpeningCall(s, board, difficulty) ==
  /\ \A t \in Callers : ses[t].pc # "loop"
  /\ MMCall(s, board, difficulty)

\* One pass of the search, nothing raised; the clock stops it after the
\* pass at depth MaxLate.
OpeningIterate(s) ==
  /\ MMIterate(s, 0)
  /\ ses[s].depth >= MaxLate => ses'[s].pc = "returned"

OpeningInit ==
  /\ engine \in {"mm", "ee"}
  /\ ses = [s \in Callers |-> Idle]
  /\ _transposition_table = <<>>
  /\ _history_table = ZeroHistory
  /\ _killer_moves = <<>>
  /\ _global_ai = NewAI
  /\ OthersIdle

OpeningNext ==
  \E s \in Callers :
    \/ \E in \in OpeningInputs : OpeningCall(s, in[1], in[2])
    \/ OpeningIterate(s)
    \/ \E d \in Difficulties : EECall(s, ToInts(EmptyBoard), d)

OpeningSpec == OpeningInit /\ [][OpeningNext]_vars

\* The empty board as the serving engine receives it.
EmptyEntry == IF engine = "ee" THEN ToInts(EmptyBoard) ELSE EmptyBoard

\* C16: on the empty board choose_best_move and compute_ai_move return the
\* centre cell (BOARD_SIZE div 2 in both coordinates: (7,7) on 15 x 15) at
\* every difficulty, whatever earlier searches left in the tables.
C16_EmptyBoardCentre ==
  \A s \in Callers :
    (Returned(s) /\ ses[s].entry = EmptyEntry)
    => /\ ses[s].ret.kind = "move"
       /\ MoveOf(ses[s].ret) = <<BOARD_SIZE \div 2, BOARD_SIZE \div 2>>

\* The second of two calls of choose_best_move, at "challenge", has returned
\* its move for the empty board from tables an earlier search had filled.
C16_Witness ==
  /\ engine = "mm"
  /\ Returned(1)
  /\ Returned(2)
  /\ ses[2].entry = EmptyBoard
  /\ ses[2].difficulty = "challenge"
  /\ ses[2].ret.kind = "move"
  /\ _transposition_table # <<>>

(* ------------------- the PvP server: shared steps ---------------------- *)
nonPvPVars == <<engine, ses, _transposition_table, _history_table, _killer_moves, _global_ai, probe>>

\* A worker takes a new request when it is free and the server accepts one.
CanServe(w) ==
  /\ req[w].pc \in {"idle", "done"}
  /\ served < MaxRequests

\* The view returns: the worker holds the response until its next request.
Response(view, user, arg, obj, status, body) ==
  Request("done", view, user, arg, obj, status, body)

\* A read that takes no notice of the locks of other transactions.
SelectUnlocked(w, table, ids) == TRUE

\* select_for_update() on the rows ids of a table returns when no other
\* transaction holds one of them; until then the statement waits.
select_for_update(w, table, ids) ==
  \A l \in db.locks : (l[2] = table /\ l[3] \in ids) => l[1] = w

\* The locks after worker w has read the rows ids with select_for_update().
Locked(w, table, ids) == db.locks \cup {<<w, table, i>> : i \in ids}

\* Leaving transaction.atomic() releases every row the worker holds.
Released(w, locks) == {l \in locks : l[1] # w}

\* .first() of a query without order_by: the row of the smallest id.
First(ids) == CHOOSE i \in ids : \A j \in ids : i <= j

\* A role for every user: whoever is not the second player plays "X".
RoleForAnyone(game, user) == IF user = game.p2 THEN "O" ELSE "X"

\* views_pvp_game.py lines 22-27; "" stands for None.
_role_for_user(game, user) ==
  IF user = game.p1 THEN "X"
  ELSE IF user = game.p2 THEN "O"
  ELSE ""

\* timezone.now() moves on, at any point of any request.
ClockTick ==
  /\ \E t \in Instants : t > now /\ now' = t
  /\ UNCHANGED <<db, req, served>>
  /\ UNCHANGED nonPvPVars

(* ------------------- the PvP server: rematch --------------------------- *)
\* The first statement of both rematch views (lines 310-313, 356-359):
\* the game is read with select_for_update(), a missing game is answered 404.
RematchLoadGame(w, user, game_id, view, pc) ==
  /\ CanServe(w)
  /\ served' = served + 1
  /\ IF game_id \notin DOMAIN db.PvPGame
       THEN /\ req' = [req EXCEPT ![w] = Response(view, user, game_id, <<>>, 404,
                                                  [detail |-> "Game not found"])]
            /\ db' = db
       ELSE /\ select_for_update(w, "PvPGame", {game_id})
            /\ db' = [db EXCEPT !.locks = Locked(w, "PvPGame", {game_id})]
            /\ req' = [req EXCEPT ![w] = Request(pc, view, user, game_id,
                                                 db.PvPGame[game_id], 0, <<>>)]
  /\ UNCHANGED now
  /\ UNCHANGED nonPvPVars

\* The pending requests of a game (lines 322-326 and 368-372).
PendingRematch(game_id) ==
  {r \in DOMAIN db.RematchRequest :
     /\ db.RematchRequest[r].game = game_id
     /\ db.RematchRequest[r].status = "pending"}

\* The view leaves its transaction with this response: the rows it wrote
\* are committed and its locks released.
RematchReturn(w, games, rematches, status, body) ==
  /\ db' = Database(games, db.MatchQueueEntry, rematches, Released(w, db.locks))
  /\ req' = [req EXCEPT ![w] = Response(req[w].view, req[w].user, req[w].arg,
                                        req[w].obj, status, body)]
  /\ UNCHANGED <<now, served>>
  /\ UNCHANGED nonPvPVars

\* PvPRematchRequestView.post, lines 309-313.
RematchRequestBegin(w, user, game_id) ==
  RematchLoadGame(w, user, game_id, "PvPRematchRequestView", "rematch_request")

\* PvPRematchRequestView.post, lines 315-349.
RematchRequestFinish(w) ==
  /\ req[w].pc = "rematch_request"
  /\ LET game == req[w].obj
         user == req[w].user
         pending == PendingRematch(req[w].arg)
     IN  IF _role_for_user(game, user) = ""
           THEN RematchReturn(w, db.PvPGame, db.RematchRequest, 403,
                              [detail |-> "Forbidden"])
         ELSE IF game.status # "finished"
           THEN RematchReturn(w, db.PvPGame, db.RematchRequest, 409,
                              [detail |-> "Rematch available only for finished games"])
         ELSE /\ select_for_update(w, "RematchRequest", pending)
              /\ IF pending # {}
                   THEN RematchReturn(w, db.PvPGame,
                          [db.RematchRequest EXCEPT ![First(pending)].requester = user,
                                                    ![First(pending)].new_game = NULL],
                          200, [ok |-> TRUE, status |-> "pending"])
                   ELSE RematchReturn(w, db.PvPGame,
                          Append(db.RematchRequest,
                                 RematchRequest(req[w].arg, user, "pending", NULL)),
                          200, [ok |-> TRUE, status |-> "pending"])

\* The game of a rematch with the two players on the same sides as before.
RematchGameSameRoles(game) ==
  PvPGame(game.p1, game.p2, game.mode, "active", "ongoing", game.board_size,
          FALSE, NULL, NULL, NULL)

\* The game PvPRematchAcceptView.post creates (lines 379-389).
RematchGame(game) ==
  PvPGame(game.p2, game.p1, game.mode, "active", "ongoing", game.board_size,
          FALSE, NULL, NULL, NULL)

\* PvPRematchAcceptView.post, lines 355-359.
RematchAcceptBegin(w, user, game_id) ==
  RematchLoadGame(w, user, game_id, "PvPRematchAcceptView", "rematch_accept")

\* PvPRematchAcceptView.post, lines 361-403.
RematchAcceptFinish(w) ==
  /\ req[w].pc = "rematch_accept"
  /\ LET game == req[w].obj
         user == req[w].user
         pending == PendingRematch(req[w].arg)
         new_game_id == Len(db.PvPGame) + 1
     IN  IF _role_for_user(game, user) = ""
           THEN RematchReturn(w, db.PvPGame, db.RematchRequest, 403,
                              [detail |-> "Forbidden"])
         ELSE IF game.status # "finished"
           THEN RematchReturn(w, db.PvPGame, db.RematchRequest, 409,
                              [detail |-> "Rematch available only for finished games"])
         ELSE /\ select_for_update(w, "RematchRequest", pending)
              /\ IF pending = {}
                   THEN RematchReturn(w, db.PvPGame, db.RematchRequest, 409,
                                      [detail |-> "No pending rematch request"])
                 ELSE IF db.RematchRequest[First(pending)].requester = user
                   THEN RematchReturn(w, db.PvPGame, db.RematchRequest, 409,
                          [detail |-> "Requester cannot accept own rematch request"])
                 ELSE RematchReturn(w, Append(db.PvPGame, RematchGame(game)),
                          [db.RematchRequest EXCEPT ![First(pending)].status = "accepted",
                                                    ![First(pending)].new_game = new_game_id],
                          200, [ok |-> TRUE, new_game_id |-> new_game_id])

\* The games of tests_pvp_rematch.py (lines 31-39), and a finished ranked
\* game between the second and the third user.
RematchGames ==
  << PvPGame(1, 2, "casual", "finished", "p1_win", 15, FALSE, NULL, NULL, NULL),
     PvPGame(2, 3, "ranked", "finished", "draw", 15, FALSE, NULL, NULL, NULL) >>

\* The game ids of the requests: the two games, and the id of the next game.
RematchGameIds == 1 .. (Len(RematchGames) + 1)

EnginesIdle ==
  /\ engine = "none"
  /\ ses = [s \in Callers |-> Idle]
  /\ _transposition_table = <<>>
  /\ _history_table = ZeroHistory
  /\ _killer_moves = <<>>
  /\ _global_ai = NewAI
  /\ probe = NoProbe

RematchInit ==
  /\ EnginesIdle
  /\ db = Database(RematchGames, <<>>, <<>>, {})
  /\ req = [w \in Workers |-> NoRequest]
  /\ now = 0
  /\ served = 0

RematchNext ==
  \E w \in Workers :
    \/ \E user \in Users, game_id \in RematchGameIds : RematchRequestBegin(w, user, game_id)
    \/ RematchRequestFinish(w)
    \/ \E user \in Users, game_id \in RematchGameIds : RematchAcceptBegin(w, user, game_id)
    \/ RematchAcceptFinish(w)

RematchSpec == RematchInit /\ [][RematchNext]_vars

(* ------------------- the PvP server: private invites ------------------- *)
\* int(board_size) of a request value, NULL where Python raises ValueError.
PyInt(v) ==
  CASE v = "15" -> 15
    [] v = "0" -> 0
    [] OTHER -> NULL

\* generate_unique_invite_code (models.py lines 589-599) returns a code no
\* game has: the model takes the number of the game as its code.
generate_unique_invite_code == Len(db.PvPGame) + 1

\* PvPPrivateCreateView.post, lines 23-55.
PrivateCreate(w, user, mode, board_size) ==
  /\ CanServe(w)
  /\ served' = served + 1
  /\ IF mode \notin {"casual", "ranked"}
       THEN /\ req' = [req EXCEPT ![w] = Response("PvPPrivateCreateView", user, mode, <<>>,
                                                  400, [detail |-> "Invalid mode"])]
            /\ db' = db
     ELSE IF PyInt(board_size) = NULL
       THEN /\ req' = [req EXCEPT ![w] = Response("PvPPrivateCreateView", user, mode, <<>>,
                                            400, [detail |-> "board_size must be an integer"])]
            /\ db' = db
     ELSE IF PyInt(board_size) <= 0
       THEN /\ req' = [req EXCEPT ![w] = Response("PvPPrivateCreateView", user, mode, <<>>,
                                                  400, [detail |-> "board_size must be > 0"])]
            /\ db' = db
     ELSE /\ db' = [db EXCEPT !.PvPGame =
                      Append(@, PvPGame(user, NULL, mode, "waiting", "ongoing",
                                        PyInt(board_size), TRUE, generate_unique_invite_code,
                                        now + INVITE_TTL, NULL))]
          /\ req' = [req EXCEPT ![w] = Response("PvPPrivateCreateView", user, mode, <<>>, 201,
                                         [game_id |-> Len(db.PvPGame) + 1,
                                          invite_code |-> generate_unique_invite_code])]
  /\ UNCHANGED now
  /\ UNCHANGED nonPvPVars

\* The games a join looks up by code (lines 67-75).
InviteGames(invite_code) ==
  {g \in DOMAIN db.PvPGame :
     /\ db.PvPGame[g].invite_code = invite_code
     /\ db.PvPGame[g].is_private
     /\ db.PvPGame[g].status \in {"waiting", "active"}}

\* PvPPrivateJoinView.post, lines 61-77.  A request without a code is
\* answered 400 (invite_code 0); the codes are in upper case already.
PrivateJoinBegin(w, user, invite_code) ==
  /\ CanServe(w)
  /\ served' = served + 1
  /\ IF invite_code = 0
       THEN /\ req' = [req EXCEPT ![w] = Response("PvPPrivateJoinView", user, invite_code,
                                           <<>>, 400, [code |-> "This field is required."])]
            /\ db' = db
     ELSE IF InviteGames(invite_code) = {}
       THEN /\ req' = [req EXCEPT ![w] = Response("PvPPrivateJoinView", user, invite_code,
                                                  <<>>, 404, [detail |-> "Invite not found"])]
            /\ db' = db
     ELSE LET g == First(InviteGames(invite_code))
          IN  /\ select_for_update(w, "PvPGame", {g})
              /\ db' = [db EXCEPT !.locks = Locked(w, "PvPGame", {g})]
              /\ req' = [req EXCEPT ![w] = Request("private_join", "PvPPrivateJoinView", user,
                                             invite_code, [id |-> g, game |-> db.PvPGame[g]],
                                             0, <<>>)]
  /\ UNCHANGED now
  /\ UNCHANGED nonPvPVars

\* Line 78 with < in the place of <=.
InviteExpiredStrictly(game, t) ==
  game.invite_expires_at # NULL /\ game.invite_expires_at < t

\* Line 78: game.invite_expires_at and game.invite_expires_at <= timezone.now().
InviteExpired(game, t) ==
  game.invite_expires_at # NULL /\ game.invite_expires_at <= t

\* The view leaves its transaction with this response.
PrivateReturn(w, games, status, body) ==
  /\ db' = [db EXCEPT !.PvPGame = games, !.locks = Released(w, db.locks)]
  /\ req' = [req EXCEPT ![w] = Response(req[w].view, req[w].user, req[w].arg,
                                        req[w].obj, status, body)]
  /\ UNCHANGED <<now, served>>
  /\ UNCHANGED nonPvPVars

\* PvPPrivateJoinView.post, lines 78-100.  game.save(update_fields=...)
\* writes the four fields of the object the view loaded into the row.
PrivateJoinFinish(w) ==
  /\ req[w].pc = "private_join"
  /\ LET game == req[w].obj.game
         g == req[w].obj.id
         user == req[w].user
     IN  IF InviteExpired(game, now)
           THEN PrivateReturn(w, db.PvPGame, 404, [detail |-> "Invite has expired"])
         ELSE IF game.p2 = NULL /\ user # game.p1
           THEN PrivateReturn(w, [db.PvPGame EXCEPT ![g].p2 = user,
                                                    ![g].status = "active",
                                                    ![g].result = "ongoing",
                                                    ![g].invite_used_at = now],
                              200, [game_id |-> g])
         ELSE IF game.p2 # NULL /\ user \notin {game.p1, game.p2}
           THEN PrivateReturn(w, db.PvPGame, 403, [detail |-> "Forbidden"])
         ELSE PrivateReturn(w, db.PvPGame, 200, [game_id |-> g])

\* The waiting game of tests_pvp_private.py lines 59-67: its host is the
\* first user, its code 1, and it has no expiry time.
PrivateGames ==
  << PvPGame(1, NULL, "casual", "waiting", "ongoing", 15, TRUE, 1, NULL, NULL) >>

\* The modes and board sizes of the create requests.
PrivateCreateInputs ==
  {<<"casual", "15">>, <<"blitz", "15">>, <<"casual", "0">>, <<"casual", "x">>}

\* The codes of the join requests: none, the game of the start, the game a
\* create request adds, and a code no game has.
InviteCodes == 0 .. (Len(PrivateGames) + 2)

PrivateInit ==
  /\ EnginesIdle
  /\ db = Database(PrivateGames, <<>>, <<>>, {})
  /\ req = [w \in Workers |-> NoRequest]
  /\ now = 0
  /\ served = 0

PrivateNext ==
  \/ ClockTick
  \/ \E w \in Workers :
       \/ \E user \in Users, in \in PrivateCreateInputs : PrivateCreate(w, user, in[1], in[2])
       \/ \E user \in Users, code \in InviteCodes : PrivateJoinBegin(w, user, code)
       \/ PrivateJoinFinish(w)

PrivateSpec == PrivateInit /\ [][PrivateNext]_vars

(* ------------------- the PvP server: matchmaking ----------------------- *)
\* matchmaking.py lines 21-28.
_elo_window(waited_sec) ==
  LET base == 50
      growth == 10 * (IF waited_sec > 0 THEN waited_sec ELSE 0)
  IN  IF base + growth < 400 THEN base + growth ELSE 400

\* matchmaking.py lines 31-32, at the instant t.
_waited_seconds(entry, t) == t - entry.created_at

\* rating.elo_ranked of the users (views_pvp_queue.py lines 27-28): the
\* first user has the default of 1200, the others are 60 and 240 above.
elo_ranked(user) == 1200 + 60 * (user - 1) * (user - 1)

\* entry.elo_snapshot or 1200.
EloOf(entry) == IF entry.elo_snapshot = 0 THEN 1200 ELSE entry.elo_snapshot

\* The waiting entries of a user in a mode (lines 31-35 and 86-90).
WaitingOf(user, mode) ==
  {e \in DOMAIN db.MatchQueueEntry :
     /\ db.MatchQueueEntry[e].user = user
     /\ db.MatchQueueEntry[e].mode = mode
     /\ db.MatchQueueEntry[e].status = "waiting"}

\* .update(status=CANCELLED) on the rows ids.
Cancelled(ids) ==
  [e \in DOMAIN db.MatchQueueEntry |->
     IF e \in ids THEN [db.MatchQueueEntry[e] EXCEPT !.status = "cancelled"]
     ELSE db.MatchQueueEntry[e]]

\* QueueJoinView.post, lines 19-35.  The UPDATE waits, like a locking read,
\* for the rows another transaction holds.
QueueJoinBegin(w, user, mode) ==
  /\ CanServe(w)
  /\ served' = served + 1
  /\ IF mode \notin {"casual", "ranked"}
       THEN /\ req' = [req EXCEPT ![w] = Response("QueueJoinView", user, mode, <<>>, 400,
                                                  [detail |-> "Invalid mode"])]
            /\ db' = db
       ELSE /\ select_for_update(w, "MatchQueueEntry", WaitingOf(user, mode))
            /\ db' = [db EXCEPT !.MatchQueueEntry = Cancelled(WaitingOf(user, mode))]
            /\ req' = [req EXCEPT ![w] = Request("queue_create", "QueueJoinView", user, mode,
                         [elo |-> IF mode = "ranked" THEN elo_ranked(user) ELSE 1200],
                         0, <<>>)]
  /\ UNCHANGED now
  /\ UNCHANGED nonPvPVars

\* QueueJoinView.post, lines 37-43.
QueueJoinCreate(w) ==
  /\ req[w].pc = "queue_create"
  /\ db' = [db EXCEPT !.MatchQueueEntry =
              Append(@, MatchQueueEntry(req[w].user, req[w].arg, "waiting",
                                        req[w].obj.elo, now, NULL, NULL))]
  /\ req' = [req EXCEPT ![w].pc = "try_match",
                        ![w].obj = [entry_id |-> Len(db.MatchQueueEntry) + 1,
                                    created_at |-> now]]
  /\ UNCHANGED <<now, served>>
  /\ UNCHANGED nonPvPVars

\* try_match returns MatchResult(matched=False): its transaction ends.
TryMatchFails(w) ==
  /\ db' = [db EXCEPT !.locks = Released(w, db.locks)]
  /\ req' = [req EXCEPT ![w].pc = "queue_respond",
                        ![w].obj = [entry_id |-> req[w].obj.entry_id,
                                    created_at |-> req[w].obj.created_at,
                                    matched |-> FALSE]]

\* try_match, lines 49-64.
TryMatchBegin(w) ==
  /\ req[w].pc = "try_match"
  /\ LET entry_id == req[w].obj.entry_id
     IN  IF entry_id \notin DOMAIN db.MatchQueueEntry
           THEN TryMatchFails(w)
         ELSE /\ select_for_update(w, "MatchQueueEntry", {entry_id})
              /\ IF db.MatchQueueEntry[entry_id].status # "waiting"
                   THEN TryMatchFails(w)
                   ELSE /\ db' = [db EXCEPT !.locks = Locked(w, "MatchQueueEntry", {entry_id})]
                        /\ req' = [req EXCEPT ![w].pc = "try_match_candidates",
                                     ![w].obj = [entry_id |-> entry_id,
                                       created_at |-> req[w].obj.created_at,
                                       entry |-> db.MatchQueueEntry[entry_id],
                                       waited_a |-> _waited_seconds(db.MatchQueueEntry[entry_id], now)]]
  /\ UNCHANGED <<now, served>>
  /\ UNCHANGED nonPvPVars

\* The candidates of an entry whatever their mode.
CandidatesAnyMode(entry) ==
  {c \in DOMAIN db.MatchQueueEntry :
     /\ db.MatchQueueEntry[c].status = "waiting"
     /\ db.MatchQueueEntry[c].user # entry.user}

\* The candidates of an entry (lines 66-75).
Candidates(entry) ==
  {c \in DOMAIN db.MatchQueueEntry :
     /\ db.MatchQueueEntry[c].mode = entry.mode
     /\ db.MatchQueueEntry[c].status = "waiting"
     /\ db.MatchQueueEntry[c].user # entry.user}

\* Lines 81-91: the candidate is within the window.
Allowed(entry, waited_a, c) ==
  LET candidate == db.MatchQueueEntry[c]
      waited_b == _waited_seconds(candidate, now)
      window == _elo_window(waited_a)
      window_b == _elo_window(IF waited_a < waited_b THEN waited_a ELSE waited_b)
      allowed == IF window > window_b THEN window ELSE window_b
      diff == EloOf(entry) - EloOf(candidate)
  IN  (IF diff < 0 THEN -diff ELSE diff) <= allowed

\* Line 95.
MatchScore(entry, c) ==
  LET candidate == db.MatchQueueEntry[c]
      diff == EloOf(entry) - EloOf(candidate)
  IN  (IF diff < 0 THEN -diff ELSE diff) * 1000 - _waited_seconds(candidate, now)

\* Lines 77-99: the loop keeps the first candidate of the lowest score, in
\* the order of created_at; among candidates of one created_at the
\* database is free to return any first.
BestCandidates(entry, waited_a) ==
  LET ok == {c \in Candidates(entry) : Allowed(entry, waited_a, c)}
      lowest == {c \in ok : \A d \in ok : MatchScore(entry, c) <= MatchScore(entry, d)}
  IN  {c \in lowest :
         \A d \in lowest : db.MatchQueueEntry[c].created_at <= db.MatchQueueEntry[d].created_at}

\* try_match, lines 66-102.  The locking read takes all its rows at once.
TryMatchCandidates(w) ==
  /\ req[w].pc = "try_match_candidates"
  /\ select_for_update(w, "MatchQueueEntry", Candidates(req[w].obj.entry))
  /\ IF BestCandidates(req[w].obj.entry, req[w].obj.waited_a) = {}
       THEN TryMatchFails(w)
       ELSE \E best \in BestCandidates(req[w].obj.entry, req[w].obj.waited_a) :
              /\ db' = [db EXCEPT !.locks =
                          Locked(w, "MatchQueueEntry", Candidates(req[w].obj.entry))]
              /\ req' = [req EXCEPT ![w].pc = "try_match_recheck",
                           ![w].obj = [entry_id |-> req[w].obj.entry_id,
                                       created_at |-> req[w].obj.created_at,
                                       entry |-> req[w].obj.entry,
                                       best_id |-> best]]
  /\ UNCHANGED <<now, served>>
  /\ UNCHANGED nonPvPVars

\* try_match, lines 104-112.
TryMatchRecheck(w) ==
  /\ req[w].pc = "try_match_recheck"
  /\ select_for_update(w, "MatchQueueEntry", {req[w].obj.best_id})
  /\ IF db.MatchQueueEntry[req[w].obj.best_id].status # "waiting"
       THEN TryMatchFails(w)
       ELSE /\ db' = [db EXCEPT !.locks = Locked(w, "MatchQueueEntry", {req[w].obj.best_id})]
            /\ req' = [req EXCEPT ![w].pc = "try_match_create",
                         ![w].obj = [entry_id |-> req[w].obj.entry_id,
                                     created_at |-> req[w].obj.created_at,
                                     entry |-> req[w].obj.entry,
                                     best_id |-> req[w].obj.best_id,
                                     best |-> db.MatchQueueEntry[req[w].obj.best_id]]]
  /\ UNCHANGED <<now, served>>
  /\ UNCHANGED nonPvPVars

\* try_match, lines 114-170: the game and the two entries are written and
\* the transaction ends.  save(update_fields=...) writes the three fields.
TryMatchCreate(w) ==
  /\ req[w].pc = "try_match_create"
  /\ LET entry == req[w].obj.entry
         best == req[w].obj.best
         entry_id == req[w].obj.entry_id
         best_id == req[w].obj.best_id
         a_is_x == entry.created_at <= best.created_at
         p1 == IF a_is_x THEN entry.user ELSE best.user
         p2 == IF a_is_x THEN best.user ELSE entry.user
         game_id == Len(db.PvPGame) + 1
         role == IF p1 = entry.user THEN "X" ELSE "O"
     IN  /\ db' = [db EXCEPT
                     !.PvPGame = Append(@, PvPGame(p1, p2, entry.mode, "active", "ongoing",
                                                   15, FALSE, NULL, NULL, NULL)),
                     !.MatchQueueEntry = [@ EXCEPT ![entry_id].status = "matched",
                                                   ![entry_id].matched_at = now,
                                                   ![entry_id].matched_game = game_id,
                                                   ![best_id].status = "matched",
                                                   ![best_id].matched_at = now,
                                                   ![best_id].matched_game = game_id],
                     !.locks = Released(w, db.locks)]
         /\ req' = [req EXCEPT ![w].pc = "queue_respond",
                      ![w].obj = [entry_id |-> entry_id,
                                  created_at |-> req[w].obj.created_at,
                                  matched |-> TRUE, game_id |-> game_id, role |-> role,
                                  opponent_user_id |-> IF role = "X" THEN p2 ELSE p1]]
  /\ UNCHANGED <<now, served>>
  /\ UNCHANGED nonPvPVars

\* QueueJoinView.post, lines 48-75.
QueueJoinRespond(w) ==
  /\ req[w].pc = "queue_respond"
  /\ LET result == req[w].obj
         position == Cardinality({e \in DOMAIN db.MatchQueueEntry :
                        /\ db.MatchQueueEntry[e].mode = req[w].arg
                        /\ db.MatchQueueEntry[e].status = "waiting"
                        /\ db.MatchQueueEntry[e].created_at <= result.created_at})
         estimated_wait_sec == IF 5 + position * 3 < 30 THEN 5 + position * 3 ELSE 30
     IN  req' = [req EXCEPT ![w] =
           IF result.matched
             THEN Response("QueueJoinView", req[w].user, req[w].arg, result, 200,
                    [status |-> "matched", entry_id |-> result.entry_id,
                     game_id |-> result.game_id, role |-> result.role,
                     opponent_user_id |-> result.opponent_user_id])
             ELSE Response("QueueJoinView", req[w].user, req[w].arg, result, 200,
                    [status |-> "waiting", entry_id |-> result.entry_id,
                     position |-> position, estimated_wait_sec |-> estimated_wait_sec])]
  /\ UNCHANGED <<db, now, served>>
  /\ UNCHANGED nonPvPVars

\* QueueLeaveView.post, lines 81-92.
QueueLeave(w, user, mode) ==
  /\ CanServe(w)
  /\ served' = served + 1
  /\ IF mode \notin {"casual", "ranked"}
       THEN /\ req' = [req EXCEPT ![w] = Response("QueueLeaveView", user, mode, <<>>, 400,
                                                  [detail |-> "Invalid mode"])]
            /\ db' = db
       ELSE /\ select_for_update(w, "MatchQueueEntry", WaitingOf(user, mode))
            /\ db' = [db EXCEPT !.MatchQueueEntry = Cancelled(WaitingOf(user, mode))]
            /\ req' = [req EXCEPT ![w] = Response("QueueLeaveView", user, mode, <<>>, 200,
                         [ok |-> TRUE, cancelled |-> Cardinality(WaitingOf(user, mode))])]
  /\ UNCHANGED now
  /\ UNCHANGED nonPvPVars

\* Worker w waits in its candidates query for rows other transactions hold.
Waits(w) ==
  /\ req[w].pc = "try_match_candidates"
  /\ ~select_for_update(w, "MatchQueueEntry", Candidates(req[w].obj.entry))

\* The workers that hold a row worker w waits for.
Blockers(w) ==
  {v \in Workers \ {w} :
     \E l \in db.locks :
       l[1] = v /\ l[2] = "MatchQueueEntry" /\ l[3] \in Candidates(req[w].obj.entry)}

\* The workers reached from the set through n steps of waiting.
RECURSIVE WaitChain(_, _)
WaitChain(set, n) ==
  IF n = 0 THEN set
  ELSE WaitChain(set \cup UNION {Blockers(v) : v \in {u \in set : Waits(u)}}, n - 1)

\* Two try_match calls that each hold their own entry and wait for the
\* other's: the database ends the cycle by failing one of them, whose
\* transaction is rolled back and whose request is answered 500.
DeadlockVictim(w) ==
  /\ Waits(w)
  /\ w \in WaitChain(Blockers(w), MaxWorkers)
  /\ db' = [db EXCEPT !.locks = Released(w, db.locks)]
  /\ req' = [req EXCEPT ![w] = Response("QueueJoinView", req[w].user, req[w].arg,
                                        req[w].obj, 500, [detail |-> "deadlock detected"])]
  /\ UNCHANGED <<now, served>>
  /\ UNCHANGED nonPvPVars

\* The modes of the queue requests.
QueueModes == {"casual", "ranked"}

\* The clock of the queue: _elo_window is at its cap from the 35th second on.
QueueTick ==
  /\ ClockTick
  /\ now' < INVITE_TTL

QueueInit ==
  /\ EnginesIdle
  /\ db = EmptyDatabase
  /\ req = [w \in Workers |-> NoRequest]
  /\ now = 0
  /\ served = 0

QueueNext ==
  \/ QueueTick
  \/ \E w \in Workers :
       \/ \E user \in Users, mode \in QueueModes : QueueJoinBegin(w, user, mode)
       \/ QueueJoinCreate(w)
       \/ TryMatchBegin(w)
       \/ TryMatchCandidates(w)
       \/ TryMatchRecheck(w)
       \/ TryMatchCreate(w)
       \/ QueueJoinRespond(w)
       \/ \E user \in Users, mode \in QueueModes : QueueLeave(w, user, mode)
       \/ DeadlockVictim(w)

QueueSpec == QueueInit /\ [][QueueNext]_vars

(* ------------------------- claims: rematch ----------------------------- *)
\* Worker w is about to finish an accept that the claim is about: the game
\* is finished, the user is one of its two players, a request is pending
\* and the user is not the one who made it.
AcceptsPending(w) ==
  /\ req[w].pc = "rematch_accept"
  /\ req'[w].pc = "done"
  /\ db.PvPGame[req[w].arg].status = "finished"
  /\ req[w].user \in {db.PvPGame[req[w].arg].p1, db.PvPGame[req[w].arg].p2}
  /\ PendingRematch(req[w].arg) # {}
  /\ \A r \in PendingRematch(req[w].arg) : db.RematchRequest[r].requester # req[w].user

\* The games that rematches have created are as many as the accepted requests.
OneGamePerAccept ==
  /\ \A r \in DOMAIN db.RematchRequest :
       db.RematchRequest[r].status = "accepted" <=> db.RematchRequest[r].new_game # NULL
  /\ \A r, q \in DOMAIN db.RematchRequest :
       (r # q /\ db.RematchRequest[r].status = "accepted"
              /\ db.RematchRequest[q].status = "accepted")
         => db.RematchRequest[r].new_game # db.RematchRequest[q].new_game
  /\ Len(db.PvPGame) = Len(RematchGames)
       + Cardinality({r \in DOMAIN db.RematchRequest : db.RematchRequest[r].status = "accepted"})

\* C17: accepting a pending rematch request on a finished game, by the
\* player who did not make the request, is answered 200 and adds exactly one
\* game, which is active, has the mode of the old game and the two players
\* on swapped sides (new p1 = old p2, new p2 = old p1); the request becomes
\* accepted and its new_game is that game.  No other step adds a game, so
\* however the requests interleave there is one new game per accepted request.
C17_AcceptCreatesSwappedGame ==
  /\ []OneGamePerAccept
  /\ [][\A w \in Workers :
          AcceptsPending(w) =>
            LET old == db.PvPGame[req[w].arg]
                r == First(PendingRematch(req[w].arg))
                g == Len(db.PvPGame) + 1
            IN  /\ req'[w].status = 200
                /\ req'[w].body.new_game_id = g
                /\ Len(db'.PvPGame) = g
                /\ SubSeq(db'.PvPGame, 1, Len(db.PvPGame)) = db.PvPGame
                /\ db'.PvPGame[g].status = "active"
                /\ db'.PvPGame[g].mode = old.mode
                /\ db'.PvPGame[g].p1 = old.p2
                /\ db'.PvPGame[g].p2 = old.p1
                /\ db'.RematchRequest[r].status = "accepted"
                /\ db'.RematchRequest[r].new_game = g]_vars

\* Two accepts of the same request raced: one created the game, the other
\* found no pending request.
C17_Witness ==
  /\ req[1].pc = "done" /\ req[1].view = "PvPRematchAcceptView" /\ req[1].status = 200
  /\ req[2].pc = "done" /\ req[2].view = "PvPRematchAcceptView" /\ req[2].status = 409
  /\ req[1].arg = 1 /\ req[2].arg = 1 /\ req[1].user = req[2].user
  /\ Len(db.PvPGame) = Len(RematchGames) + 1
  /\ db.PvPGame[Len(db.PvPGame)].p1 = 2 /\ db.PvPGame[Len(db.PvPGame)].p2 = 1

(* ---------------------- claims: private invites ------------------------ *)
\* Worker w is about to leave PvPPrivateJoinView.post for the game it loaded.
JoinReturns(w) ==
  /\ req[w].pc = "private_join"
  /\ req'[w].pc = "done"

\* The row, as committed, of the game worker w loaded.
JoinedGame(w) == db.PvPGame[req[w].obj.id]

\* The expiry time of the game has passed.
ExpiryPassed(game) ==
  game.invite_expires_at # NULL /\ game.invite_expires_at <= now

\* p2 of a game is set once.
P2Kept ==
  \A g \in DOMAIN db.PvPGame :
    db.PvPGame[g].p2 # NULL => db'.PvPGame[g].p2 = db.PvPGame[g].p2

\* The join of worker w is the first by a user other than the host.
FirstJoin(w) ==
  /\ JoinReturns(w)
  /\ JoinedGame(w).status = "waiting"
  /\ JoinedGame(w).p2 = NULL
  /\ req[w].user # JoinedGame(w).p1

\* The join of worker w is by a third user, on a game that has its two players.
ThirdJoin(w) ==
  /\ JoinReturns(w)
  /\ JoinedGame(w).p2 # NULL
  /\ req[w].user \notin {JoinedGame(w).p1, JoinedGame(w).p2}

\* The first join is admitted: the user becomes p2 and the game active.
Admitted(w) ==
  /\ req'[w].status = 200
  /\ db'.PvPGame[req[w].obj.id].p2 = req[w].user
  /\ db'.PvPGame[req[w].obj.id].status = "active"

\* The join is refused with this status and no game has changed.
Refused(w, status) ==
  /\ req'[w].status = status
  /\ db'.PvPGame = db.PvPGame

\* C18 as stated: the first join by a user other than the host on a
\* waiting game makes that user p2 and the game active; from then on p2
\* never changes, and every join by a user who is neither p1 nor p2 is
\* answered 403 and changes no game.
C18_OneJoinerAsStated ==
  [][/\ P2Kept
     /\ \A w \in Workers :
          /\ FirstJoin(w) => Admitted(w)
          /\ ThirdJoin(w) => Refused(w, 403)]_vars

\* C18: while the invite has not expired, the first join by a user other
\* than the host on a waiting game makes that user p2 and the game active,
\* and a join by a user who is neither p1 nor p2 of a game with two players
\* is answered 403; once the invite has expired both are answered 404.  In
\* every case p2, once set, never changes, and a refused join changes no game.
C18_OneJoiner ==
  [][/\ P2Kept
     /\ \A w \in Workers :
          /\ FirstJoin(w) =>
               IF ExpiryPassed(JoinedGame(w)) THEN Refused(w, 404) ELSE Admitted(w)
          /\ ThirdJoin(w) =>
               Refused(w, IF ExpiryPassed(JoinedGame(w)) THEN 404 ELSE 403)]_vars

\* Two joins of the created game raced: the second user got in, the third
\* was refused with 403, and the second user is still p2.
C18_Witness ==
  /\ req[1].pc = "done" /\ req[1].view = "PvPPrivateJoinView" /\ req[1].status = 200
  /\ req[2].pc = "done" /\ req[2].view = "PvPPrivateJoinView" /\ req[2].status = 403
  /\ req[1].user = 2 /\ req[2].user = 3
  /\ req[1].arg = 2 /\ req[2].arg = 2
  /\ req[2].obj.game.p2 = 2
  /\ Len(db.PvPGame) = 2
  /\ db.PvPGame[2].p2 = 2 /\ db.PvPGame[2].status = "active"

\* C19: a join with the code of a game whose expiry time has passed is
\* answered 404 and changes no row: a waiting game stays waiting, without
\* p2 and with invite_used_at unset.
C19_ExpiredInviteGone ==
  [][\A w \in Workers :
       (JoinReturns(w) /\ ExpiryPassed(JoinedGame(w))) =>
         /\ req'[w].status = 404
         /\ db'.PvPGame = db.PvPGame
         /\ db'.RematchRequest = db.RematchRequest
         /\ db'.MatchQueueEntry = db.MatchQueueEntry
         /\ (JoinedGame(w).status = "waiting" /\ JoinedGame(w).p2 = NULL) =>
              /\ db'.PvPGame[req[w].obj.id].status = "waiting"
              /\ db'.PvPGame[req[w].obj.id].p2 = NULL
              /\ db'.PvPGame[req[w].obj.id].invite_used_at = NULL]_vars

\* A user other than the host joined at the very second the invite expired
\* and got 404; the game is still waiting.
C19_Witness ==
  /\ now = INVITE_TTL
  /\ req[1].pc = "done" /\ req[1].view = "PvPPrivateJoinView" /\ req[1].status = 404
  /\ req[1].user = 2 /\ req[1].arg = 2
  /\ Len(db.PvPGame) = 2
  /\ db.PvPGame[2].invite_expires_at = INVITE_TTL
  /\ db.PvPGame[2].status = "waiting" /\ db.PvPGame[2].p2 = NULL
  /\ db.PvPGame[2].invite_used_at = NULL

(* ------------------------ claims: matchmaking -------------------------- *)
\* The entries matched to game g.
EntriesOf(g) ==
  {e \in DOMAIN db.MatchQueueEntry : db.MatchQueueEntry[e].matched_game = g}

\* Every game of the queue has exactly two entries, both matched, of the
\* mode of the game and of its two players, who are different users; an
\* entry has a game iff it is matched.
MatchesSound ==
  /\ \A g \in DOMAIN db.PvPGame :
       \E a, b \in DOMAIN db.MatchQueueEntry :
         /\ a # b
         /\ EntriesOf(g) = {a, b}
         /\ db.MatchQueueEntry[a].status = "matched"
         /\ db.MatchQueueEntry[b].status = "matched"
         /\ db.MatchQueueEntry[a].mode = db.PvPGame[g].mode
         /\ db.MatchQueueEntry[b].mode = db.PvPGame[g].mode
         /\ db.MatchQueueEntry[a].user # db.MatchQueueEntry[b].user
         /\ {db.MatchQueueEntry[a].user, db.MatchQueueEntry[b].user}
              = {db.PvPGame[g].p1, db.PvPGame[g].p2}
  /\ \A e \in DOMAIN db.MatchQueueEntry :
       /\ db.MatchQueueEntry[e].status = "matched"
            <=> db.MatchQueueEntry[e].matched_game # NULL
       /\ db.MatchQueueEntry[e].matched_game # NULL
            => db.MatchQueueEntry[e].matched_game \in DOMAIN db.PvPGame

\* A matched entry is never written again.
MatchedKept ==
  \A e \in DOMAIN db.MatchQueueEntry :
    db.MatchQueueEntry[e].status = "matched"
      => db'.MatchQueueEntry[e] = db.MatchQueueEntry[e]

\* A step that adds a game adds one, between two entries that were waiting.
MatchedFromWaiting ==
  Len(db'.PvPGame) # Len(db.PvPGame) =>
    /\ Len(db'.PvPGame) = Len(db.PvPGame) + 1
    /\ SubSeq(db'.PvPGame, 1, Len(db.PvPGame)) = db.PvPGame
    /\ \E a, b \in DOMAIN db.MatchQueueEntry :
         /\ a # b
         /\ db.MatchQueueEntry[a].status = "waiting"
         /\ db.MatchQueueEntry[b].status = "waiting"
         /\ db.MatchQueueEntry[a].mode = db.MatchQueueEntry[b].mode
         /\ db.MatchQueueEntry[a].user # db.MatchQueueEntry[b].user
         /\ db'.MatchQueueEntry[a].status = "matched"
         /\ db'.MatchQueueEntry[b].status = "matched"
         /\ db'.MatchQueueEntry[a].matched_game = Len(db'.PvPGame)
         /\ db'.MatchQueueEntry[b].matched_game = Len(db'.PvPGame)

\* C20: under every interleaving of queue requests and their try_match
\* calls, an entry is matched to at most one game (once matched it is never
\* written again, and every game keeps its two entries), a game is created
\* only between two entries that were both waiting, of the same mode and of
\* different users, and the two entries of a match are both matched with
\* that game as matched_game.
C20_TryMatchSafe ==
  /\ []MatchesSound
  /\ [][MatchedKept /\ MatchedFromWaiting]_vars

\* Two joins ran their try_match at the same time, each holding its own
\* entry and waiting for the other's; the database failed one of them and
\* the other made the one game of the two entries.
C20_Witness ==
  /\ req[1].pc = "done" /\ req[1].view = "QueueJoinView" /\ req[1].status = 500
  /\ req[2].pc = "done" /\ req[2].view = "QueueJoinView" /\ req[2].status = 200
  /\ req[2].body.status = "matched"
  /\ Len(db.PvPGame) = 1
  /\ EntriesOf(1) = {1, 2}
  /\ db.MatchQueueEntry[1].user # db.MatchQueueEntry[2].user

(* ------------------- the searches called on their own ------------------ *)
\* The parameters choose_best_move hands to its searches (lines 507-508).
SearchParams(difficulty) ==
  [player |-> "O", opponent |-> "X",
   max_candidates |-> DIFFICULTY_PARAMS(difficulty).max_candidates,
   radius |-> DIFFICULTY_PARAMS(difficulty).radius, fault |-> 0]

\* The tables of the module as a search finds them.
SearchState(board, tt, hist, killers) ==
  [board |-> board, tt |-> tt, hist |-> hist, killers |-> killers, n |-> 0, exc |-> FALSE]

\* A node of _minimax one move below the root of a search: the root board,
\* the move and the side that makes it.
KeyProbes ==
  {[pc |-> "call", fn |-> "key", board |-> b, row |-> m[1], col |-> m[2], maximizing |-> mx] :
     b \in DenseBoards \cup {OWins, XThreat, NextToCentre},
     m \in Cells, mx \in BOOLEAN}

\* The key _minimax gives to the child (lines 354, 392) of a root whose key
\* is the one choose_best_move computes (line 532), and the key _zobrist_hash
\* computes for the child's board.
ChildKeyCall ==
  /\ probe.pc = "call"
  /\ probe.fn = "key"
  /\ probe.board[probe.row][probe.col] = ""
  /\ probe' = [pc |-> "done", fn |-> "key", board |-> probe.board, row |-> probe.row,
               col |-> probe.col, maximizing |-> probe.maximizing,
               child |-> Place(probe.board, probe.row, probe.col,
                               IF probe.maximizing THEN "O" ELSE "X"),
               child_hash |-> child_hash(_zobrist_hash(probe.board), probe.row, probe.col,
                                         probe.maximizing)]
  /\ UNCHANGED <<engine, ses, _transposition_table, _history_table, _killer_moves, _global_ai>>
  /\ UNCHANGED pvpVars

\* C21: the key of a node, kept by XOR while _minimax places stones, is the
\* key _zobrist_hash computes for the node's board.
C21_KeyIsBoardKey ==
  (probe.pc = "done" /\ probe.fn = "key") => probe.child_hash = _zobrist_hash(probe.child)

C21_Collision ==
  /\ probe.pc = "done"
  /\ probe.fn = "key"
  /\ probe.maximizing
  /\ probe.child_hash # _zobrist_hash(probe.child)
  /\ probe.child_hash = _zobrist_hash(Place(probe.board, probe.row, probe.col, "X"))

(* ------------------- C22: move ordering and the value ------------------ *)
\* Early-game positions, with more empty cells near the stones than the
\* max_candidates of "easy".
Sparse1 == Put(Put(EmptyBoard, {<<1, 0>>, <<1, 3>>, <<5, 2>>}, "X"), {<<5, 0>>}, "O")
Sparse2 == Put(Put(EmptyBoard, {<<1, 2>>, <<2, 4>>}, "X"), {<<0, 1>>, <<0, 3>>, <<3, 4>>}, "O")
SparseBoards == {Sparse1, Sparse2}

\* _history_table after one cutoff at depth 1 on the cell m (line 383).
HistoryAfterCutoff(m) == HistoryBump(ZeroHistory, m[1], m[2], 1)

\* The root call of a search of `depth` plies with the full window, on empty
\* transposition and killer tables (choose_best_move, lines 543-548).
RootValue(board, hist, depth, difficulty) ==
  _minimax(SearchState(board, <<>>, hist, <<>>), depth, -Inf, Inf, TRUE,
           SearchParams(difficulty), _zobrist_hash(board), 0).score

OrderProbes ==
  {[pc |-> "call", fn |-> "order", board |-> b, cell |-> m, depth |-> 1] :
     b \in SparseBoards, m \in Cells}

\* The same position searched to the same depth with two contents of the
\* history table.
OrderCall ==
  /\ probe.pc = "call"
  /\ probe.fn = "order"
  /\ probe.board[probe.cell[1]][probe.cell[2]] = ""
  /\ probe' = [pc |-> "done", fn |-> "order", board |-> probe.board, cell |-> probe.cell,
               depth |-> probe.depth,
               value |-> RootValue(probe.board, ZeroHistory, probe.depth, "easy"),
               value_hist |-> RootValue(probe.board, HistoryAfterCutoff(probe.cell),
                                        probe.depth, "easy")]
  /\ UNCHANGED <<engine, ses, _transposition_table, _history_table, _killer_moves, _global_ai>>
  /\ UNCHANGED pvpVars

\* C22: for a fixed position and depth the root value of the search is the
\* same for every content of the history table.
C22_OrderingKeepsValue ==
  (probe.pc = "done" /\ probe.fn = "order") => probe.value_hist = probe.value

(* ------------------- C23: the flag of a stored entry ------------------- *)
\* Windows a node is searched on: the full one, half-open ones and narrow
\* ones around the values of the positions below.
Alphas == {-Inf, -1000, -10, 0, 40}
Betas == {-5, 20, 50, 1000, Inf}

\* A node of the search expanded to depth 1 or 2 on the window (alpha, beta),
\* with empty tables: late-game and early-game positions, either side to move.
NodeProbes ==
  {[pc |-> "call", fn |-> "node", board |-> b, depth |-> d, alpha |-> a, beta |-> bt,
    maximizing |-> mx] :
     b \in {Dense(k) : k \in 1 .. MaxEmpty} \cup {Sparse1}, d \in 1 .. 2,
     a \in Alphas, bt \in Betas, mx \in BOOLEAN}

\* _minimax on the node; `entry` is what it left in the table under the
\* node's key (lines 386-388, 417-422), killers and hist are the killer and
\* history tables it left.
NodeCall ==
  /\ probe.pc = "call"
  /\ probe.fn = "node"
  /\ probe.alpha < probe.beta
  /\ \E res \in {_minimax(SearchState(probe.board, <<>>, ZeroHistory, <<>>), probe.depth,
                          probe.alpha, probe.beta, probe.maximizing,
                          SearchParams("easy"), _zobrist_hash(probe.board), 0)} :
       probe' = [pc |-> "done", fn |-> "node", board |-> probe.board, depth |-> probe.depth,
                 alpha |-> probe.alpha, beta |-> probe.beta,
                 maximizing |-> probe.maximizing, score |-> res.score,
                 entry |-> TTGet(res.st.tt, _zobrist_hash(probe.board)),
                 killers |-> res.st.killers, hist |-> res.st.hist]
  /\ UNCHANGED <<engine, ses, _transposition_table, _history_table, _killer_moves, _global_ai>>
  /\ UNCHANGED pvpVars

\* C23: the entry written for a node expanded on (alpha0, beta0) is Exact
\* iff alpha0 < value < beta0, UpperBound iff value <= alpha0 and LowerBound
\* iff value >= beta0, at maximizing and minimizing nodes alike.
C23_FlagClassifiesValue ==
  (probe.pc = "done" /\ probe.fn = "node" /\ probe.depth >= 2) =>
    /\ probe.entry # None
    /\ probe.entry.score = probe.score
    /\ (probe.entry.flag = EXACT) <=> (probe.alpha < probe.score /\ probe.score < probe.beta)
    /\ (probe.entry.flag = UPPERBOUND) <=> (probe.score <= probe.alpha)
    /\ (probe.entry.flag = LOWERBOUND) <=> (probe.score >= probe.beta)

(* ------------------- C24: the probe of the table ----------------------- *)
\* Entries found under the key of a node with 2 plies left: stored by a
\* search of 1, 2 or 3 plies, with each flag, below, inside and above the
\* windows.
TableEntries ==
  {[depth |-> d, score |-> sc, flag |-> f, move |-> <<0, 0>>] :
     d \in 1 .. 3, sc \in {-50, 10, 60}, f \in {EXACT, LOWERBOUND, UPPERBOUND}}

TableProbes ==
  {[pc |-> "call", fn |-> "table", entry |-> e, depth |-> 2, alpha |-> a, beta |-> bt] :
     e \in TableEntries, a \in Alphas, bt \in Betas}

\* Lines 319-329 at a node that finds `entry` under its key.
TableProbeCall ==
  /\ probe.pc = "call"
  /\ probe.fn = "table"
  /\ probe.alpha < probe.beta
  /\ probe' = [pc |-> "done", fn |-> "table", entry |-> probe.entry, depth |-> probe.depth,
               alpha |-> probe.alpha, beta |-> probe.beta,
               found |-> tt_probe(probe.entry, probe.depth, probe.alpha, probe.beta)]
  /\ UNCHANGED <<engine, ses, _transposition_table, _history_table, _killer_moves, _global_ai>>
  /\ UNCHANGED pvpVars

\* The window the probe leaves when it uses the entry: a LowerBound raises
\* alpha, an UpperBound lowers beta.
Tightened(entry, alpha, beta) ==
  [alpha |-> IF entry.flag = LOWERBOUND THEN Max2(alpha, entry.score) ELSE alpha,
   beta |-> IF entry.flag = UPPERBOUND THEN Min2(beta, entry.score) ELSE beta]

\* C24: a probe uses an entry only if its depth >= the remaining depth; an
\* Exact entry then answers the node, a LowerBound raises alpha to at least
\* the stored score, an UpperBound lowers beta to at most the stored score,
\* and the stored score answers the node exactly when the tightened window
\* has alpha >= beta.
C24_ProbeTightensWindow ==
  (probe.pc = "done" /\ probe.fn = "table") =>
    LET w == Tightened(probe.entry, probe.alpha, probe.beta)
    IN IF probe.entry.depth < probe.depth
       THEN /\ ~probe.found.hit
            /\ probe.found.alpha = probe.alpha
            /\ probe.found.beta = probe.beta
       ELSE /\ probe.found.hit <=> (probe.entry.flag = EXACT \/ w.alpha >= w.beta)
            /\ ~probe.found.hit => (probe.found.alpha = w.alpha /\ probe.found.beta = w.beta)

(* ------------------- C25: a won board and the table -------------------- *)
\* Lines 537-572 run to the end on the tables of st, with no exception and
\* no time-out: the passes depth, depth + 1, .. max_depth; the tables after
\* the last one.
RECURSIVE Deepen(_, _, _, _, _)
Deepen(board, difficulty, depth, best_score, st) ==
  LET res == MMPass(board, board, difficulty, depth, best_score,
                    st.tt, st.hist, st.killers, 0)
  IN IF depth = DIFFICULTY_PARAMS(difficulty).max_depth THEN res.st
     ELSE Deepen(board, difficulty, depth + 1,
                 IF res.move # None THEN res.score ELSE best_score, res.st)

\* A late middle game with "O" to move: three "O" on row 0 between an "X"
\* and two empty cells, seven empty cells in all, no immediate win for
\* either side.
LateEmpties == {<<0, 0>>, <<0, 4>>, <<3, 0>>, <<3, 1>>, <<4, 4>>, <<5, 1>>, <<5, 5>>}
LateRoot ==
  Clear(Put(Put(FullBoard, {<<0, 1>>, <<0, 2>>, <<0, 3>>}, "O"), {<<0, 5>>}, "X"),
        LateEmpties)

\* The line O (0,4), X (4,4), O (0,0) from LateRoot: "O" completes five.
LateLine == << <<0, 4>>, <<4, 4>>, <<0, 0>> >>

\* The board after the first k moves of the line: the stones the search of
\* LateRoot places (colours = "O", "X", "O") or the stones a game placed on
\* the same cells with "X" to move first (colours = "X", "O", "X").
RECURSIVE AfterLine(_, _, _, _)
AfterLine(board, line, colours, k) ==
  IF k = 0 THEN board
  ELSE Place(AfterLine(board, line, colours, k - 1), line[k][1], line[k][2], colours[k])

\* The key _minimax has for the node the first k moves of the line reach.
RECURSIVE LineHash(_, _, _)
LineHash(board, line, k) ==
  IF k = 0 THEN _zobrist_hash(board)
  ELSE child_hash(LineHash(board, line, k - 1), line[k][1], line[k][2], k % 2 = 1)

\* The position an earlier call of choose_best_move searched.
EarlierRoot == AfterLine(LateRoot, LateLine, <<"X", "O", "X">>, 3)

WonProbes ==
  {[pc |-> "call", fn |-> "won", prior |-> p, depth |-> d, alpha |-> a, beta |-> bt] :
     p \in {EarlierRoot, Dense(1)}, d \in 0 .. 1, a \in Alphas, bt \in Betas}

\* An earlier call choose_best_move(prior, "standard") of the process: it
\* leaves its entries in the module's tables (they are cleared only above
\* 500000 entries, line 527).
EarlierCall ==
  /\ probe.pc = "call"
  /\ probe.fn = "won"
  /\ probe.alpha < probe.beta
  /\ _find_immediate_win(probe.prior, "O") = None
  /\ _find_immediate_win(probe.prior, "X") = None
  /\ \E st \in {Deepen(probe.prior, "standard", 1, -Inf,
                       SearchState(probe.prior, _transposition_table, _history_table,
                                   _killer_moves))} :
       /\ _transposition_table' = st.tt
       /\ _history_table' = st.hist
       /\ _killer_moves' = st.killers
  /\ probe' = [probe EXCEPT !.pc = "searched"]
  /\ UNCHANGED <<engine, ses, _global_ai>>
  /\ UNCHANGED pvpVars

\* The node at ply 3 of the search of LateRoot that the line reaches, with
\* `depth` plies left: _minimax on the board with five "O", the module's
\* tables and the key the three recursive calls computed.
WonNodeCall ==
  /\ probe.pc = "searched"
  /\ probe.fn = "won"
  /\ \E node \in {AfterLine(LateRoot, LateLine, <<"O", "X", "O">>, 3)} :
     \E key \in {LineHash(LateRoot, LateLine, 3)} :
     \E res \in {_minimax(SearchState(node, _transposition_table, _history_table,
                                      _killer_moves),
                          probe.depth, probe.alpha, probe.beta, FALSE,
                          SearchParams("standard"), key, 3)} :
       probe' = [pc |-> "done", fn |-> "won", prior |-> probe.prior, depth |-> probe.depth,
                 alpha |-> probe.alpha, beta |-> probe.beta,
                 winner |-> _check_winner(node), ply |-> 3,
                 from_table |-> tt_probe(TTGet(_transposition_table, key), probe.depth,
                                         probe.alpha, probe.beta).hit,
                 score |-> res.score]
  /\ UNCHANGED <<engine, ses, _transposition_table, _history_table, _killer_moves, _global_ai>>
  /\ UNCHANGED pvpVars

\* C25: a node whose board already holds five in a row is recognised before
\* the table is consulted: it never returns a value taken from the table.
C25_WonNodeNotFromTable ==
  (probe.pc = "done" /\ probe.fn = "won" /\ probe.winner = "O") => ~probe.from_table

(* ------------------- C26: the value of a won node ---------------------- *)
\* Nodes of the search of ai.py whose board holds a completed five: after
\* the AI completed row 0 at ply 1, after the human completed row 3 at ply 2.
AdvWonNodes ==
  {[board |-> Place(OWins, 0, 0, AI), last_move |-> <<0, 0>>, ply |-> 1,
    player |-> HUMAN, maximizing |-> FALSE],
   [board |-> Place(Place(XThreat, 0, 0, AI), 3, 0, HUMAN), last_move |-> <<3, 0>>,
    ply |-> 2, player |-> AI, maximizing |-> TRUE]}

\* T = -1: no time limit; T = 0: the limit has expired when the node reads
\* the clock; T = 1: it has not.
AdvWonProbes ==
  {[pc |-> "call", fn |-> "advwon", node |-> n, depth |-> d, T |-> t] :
     n \in AdvWonNodes, d \in 0 .. 2, t \in (-1) .. 1}

\* alpha_beta (ai.py line 348) entered at the node with `depth` plies left.
AdvWonCall ==
  /\ probe.pc = "call"
  /\ probe.fn = "advwon"
  /\ \E res \in {alpha_beta([board |-> probe.node.board, transposition_table |-> <<>>,
                             killer_moves |-> <<>>, history_heuristic |-> <<>>,
                             nodes |-> 0, cutoffs |-> 0, eval_calls |-> 0,
                             T |-> probe.T, checks |-> 0],
                            probe.depth, -Inf, Inf, probe.node.player,
                            probe.node.maximizing, probe.node.last_move, probe.node.ply)} :
       probe' = [pc |-> "done", fn |-> "advwon", node |-> probe.node, depth |-> probe.depth,
                 T |-> probe.T, winner |-> check_win(probe.node.board), val |-> res.val]
  /\ UNCHANGED <<engine, ses, _transposition_table, _history_table, _killer_moves, _global_ai>>
  /\ UNCHANGED pvpVars

\* C26: a node at ply p whose board holds a completed five returns
\* WIN_VALUE - p when the five is the engine's and -WIN_VALUE + p when it is
\* the opponent's, on every path that reaches the node, a table hit and an
\* expired time budget included.
C26_WonNodeValue ==
  /\ (probe.pc = "done" /\ probe.fn = "won" /\ probe.winner = "O") =>
       probe.score = PATTERN_SCORES(WIN) - probe.ply
  /\ (probe.pc = "done" /\ probe.fn = "advwon" /\ probe.winner = AI) =>
       probe.val = 1000000 - probe.node.ply
  /\ (probe.pc = "done" /\ probe.fn = "advwon" /\ probe.winner = HUMAN) =>
       probe.val = -1000000 + probe.node.ply

(* ------------------- C27: the aspiration window ------------------------ *)
\* Scores of the previous iteration: near the value of the position, far
\* below it and far above it.
PrevScores == {-3000, -1100, 0, 1100, 3000}

AspirationProbes ==
  {[pc |-> "call", fn |-> "aspiration", board |-> b, depth |-> 2, prev_score |-> p] :
     b \in SparseBoards \cup {Dense(MaxEmpty)}, p \in PrevScores}

\* _aspiration_search and the full-window _minimax of the same depth, each
\* started on the same (empty) tables.
AspirationCall ==
  /\ probe.pc = "call"
  /\ probe.fn = "aspiration"
  /\ \E res \in {_aspiration_search(SearchState(probe.board, <<>>, ZeroHistory, <<>>),
                                    probe.depth, probe.prev_score, SearchParams("easy"),
                                    _zobrist_hash(probe.board))} :
       probe' = [pc |-> "done", fn |-> "aspiration", board |-> probe.board,
                 depth |-> probe.depth, prev_score |-> probe.prev_score,
                 score |-> res.score,
                 full |-> RootValue(probe.board, ZeroHistory, probe.depth, "easy")]
  /\ UNCHANGED <<engine, ses, _transposition_table, _history_table, _killer_moves, _global_ai>>
  /\ UNCHANGED pvpVars

\* C27: _aspiration_search returns the score of a full-window _minimax of
\* the same depth started from the same tables.
C27_AspirationIsFullWindow ==
  (probe.pc = "done" /\ probe.fn = "aspiration") => probe.score = probe.full

(* ------------------- C28: killers and cutoffs -------------------------- *)
\* C28: the killer slots change only when a move causes a cutoff, and the
\* same cutoff adds depth * depth to the history weight of the move: a
\* search that left the history table as it was (no cutoff anywhere below
\* the node) left the killer table as it was, and no depth holds more than
\* 2 moves.
C28_KillersOnlyOnCutoff ==
  (probe.pc = "done" /\ probe.fn = "node") =>
    /\ probe.hist = ZeroHistory => probe.killers = <<>>
    /\ \A d \in DOMAIN probe.killers : Len(probe.killers[d]) <= 2

(* ------------------- C29: the killer table between iterations --------- *)
\* C29: when a call of choose_best_move that no other call overlapped is
\* about to start an iteration of its deepening loop after the first, the
\* killer table is empty.
C29_KillersEmptyAtIteration ==
  \A s \in Callers :
    (engine = "mm" /\ ses[s].pc = "loop" /\ ses[s].depth > 1 /\ ~ses[s].overlapped
       /\ \A t \in Callers \ {s} : ses[t].pc = "idle")
      => _killer_moves = <<>>

(* ------------------- C30: the history weights -------------------------- *)
\* C30: the history weight of a (player, cell) pair never decreases during
\* a search, and the weights are kept per player: a search of one ply below
\* a minimizing node, where only "X" moves, leaves the weights of "O" as
\* they were.
C30_HistoryPerPlayer ==
  (probe.pc = "done" /\ probe.fn = "node") =>
    /\ \A p \in {"O", "X"}, m \in Cells :
         HistoryWeight(probe.hist, p, m[1], m[2]) >= HistoryWeight(ZeroHistory, p, m[1], m[2])
    /\ (probe.depth = 1 /\ ~probe.maximizing) =>
         \A m \in Cells :
           HistoryWeight(probe.hist, "O", m[1], m[2]) = HistoryWeight(ZeroHistory, "O", m[1], m[2])

(* ------------------- C31: the size of the transposition table ---------- *)
\* C31: in every reachable state the transposition table of
\* minimax_engine.py holds no more entries than the threshold above which
\* choose_best_move clears it.
C31_TableBounded ==
  engine = "mm" => Cardinality(DOMAIN _transposition_table) <= TT_CLEAR_LIMIT

(* ------------------- C32: wins and blocks come first ------------------- *)
\* history_heuristic[(player, move)] after k cutoffs of the move at `depth`
\* (ai.py lines 413 / 432: += depth * depth; nothing resets the table of
\* the shared instance between calls of best_move).
CutoffWeight(k, depth) == k * depth * depth

\* Numbers of cutoffs one (player, move) pair has collected at depth 3 over
\* the searches of the process.
CutoffCounts == {0, 1, 100, 16700, 22300, 89000}

\* Cells of BothFour: (0,0) completes the five of "O", (3,0) the five of
\* "X", (1,2) neither.
OrderCells == {<<0, 0>>, <<3, 0>>, <<1, 2>>}

AdvOrderProbes ==
  {[pc |-> "call", fn |-> "advorder", board |-> BothFour, player |-> p, cell |-> m,
    cutoffs |-> k, killer |-> kl] :
     p \in {AI, HUMAN}, m \in OrderCells, k \in CutoffCounts, kl \in OrderCells}

\* advanced_move_ordering at a node of depth 3 where `player` moves, the
\* killer list of the depth holds `killer` and the pair (player, cell) has
\* collected the cutoffs.
AdvOrderCall ==
  /\ probe.pc = "call"
  /\ probe.fn = "advorder"
  /\ probe' = [pc |-> "done", fn |-> "advorder", board |-> probe.board,
               player |-> probe.player, cell |-> probe.cell, cutoffs |-> probe.cutoffs,
               killer |-> probe.killer,
               ordered |->
                 advanced_move_ordering(
                   probe.board, DictPut(<<>>, 3, <<probe.killer>>),
                   DictPut(<<>>, <<probe.player, probe.cell>>, CutoffWeight(probe.cutoffs, 3)),
                   generate_moves(probe.board, None, 2), probe.player, 3, None)]
  /\ UNCHANGED <<engine, ses, _transposition_table, _history_table, _killer_moves, _global_ai>>
  /\ UNCHANGED pvpVars

\* The move wins at once for the mover / completes a five of the opponent.
WinsNow(board, m, player) == check_win(Place(board, m[1], m[2], player)) = player
BlocksNow(board, m, player) ==
  check_win(Place(board, m[1], m[2], Other(player))) = Other(player)

\* C32: in the list advanced_move_ordering returns, every move that wins at
\* once precedes every move that does not, and every move that blocks an
\* immediate win of the opponent precedes every move that neither wins nor
\* blocks.
C32_WinsAndBlocksFirst ==
  (probe.pc = "done" /\ probe.fn = "advorder") =>
    \A i, j \in 1 .. Len(probe.ordered) :
      i < j =>
        /\ WinsNow(probe.board, probe.ordered[j], probe.player)
             => WinsNow(probe.board, probe.ordered[i], probe.player)
        /\ BlocksNow(probe.board, probe.ordered[j], probe.player)
             => \/ WinsNow(probe.board, probe.ordered[i], probe.player)
                \/ BlocksNow(probe.board, probe.ordered[i], probe.player)

(* ------------------- C33: quiescence at depth 0 ------------------------ *)
\* Nodes alpha_beta is entered at with no ply left: positions without a
\* five and positions where a five was just completed, either side to move.
QuietProbes ==
  {[pc |-> "call", fn |-> "quiet", board |-> b, alpha |-> a, beta |-> bt, player |-> p] :
     b \in {Dense(1), Dense(MaxEmpty), Sparse1, Sparse2, BothFour, XThreat}
             \cup {n.board : n \in AdvWonNodes},
     a \in {-Inf, 0}, bt \in {20, Inf}, p \in {AI, HUMAN}}

\* alpha_beta(board, 0, alpha, beta, player, ...) without a time limit, on
\* fresh counters: nodes counts the calls of alpha_beta and of
\* quiescence_search it led to (lines 353, 316).
QuietCall ==
  /\ probe.pc = "call"
  /\ probe.fn = "quiet"
  /\ \E res \in {alpha_beta([board |-> probe.board, transposition_table |-> <<>>,
                             killer_moves |-> <<>>, history_heuristic |-> <<>>,
                             nodes |-> 0, cutoffs |-> 0, eval_calls |-> 0,
                             T |-> -1, checks |-> 0],
                            0, probe.alpha, probe.beta, probe.player, probe.player = AI,
                            None, 1)} :
       probe' = [pc |-> "done", fn |-> "quiet", board |-> probe.board, alpha |-> probe.alpha,
                 beta |-> probe.beta, player |-> probe.player,
                 won |-> \E p \in {AI, HUMAN} : check_win(probe.board) = p,
                 stand_pat |-> enhanced_evaluation(probe.board),
                 nodes |-> res.st.nodes, val |-> res.val]
  /\ UNCHANGED <<engine, ses, _transposition_table, _history_table, _killer_moves, _global_ai>>
  /\ UNCHANGED pvpVars

\* C33: a node with no ply left calls quiescence_search only when the board
\* holds no five, and that call returns without a recursive call: its
\* result is the static evaluation, or beta when the evaluation is >= beta.
C33_QuiescenceStandsPat ==
  (probe.pc = "done" /\ probe.fn = "quiet") =>
    IF probe.won
    THEN probe.nodes = 1
    ELSE /\ probe.nodes = 2
         /\ probe.val = IF probe.stand_pat >= probe.beta THEN probe.beta ELSE probe.stand_pat

C33_Witness ==
  /\ probe.pc = "done"
  /\ probe.fn = "quiet"
  /\ ~probe.won
  /\ probe.stand_pat < probe.beta
  /\ probe.nodes = 2
  /\ probe.val = probe.stand_pat

(* ------------------- C34: the winner checks agree ---------------------- *)
\* Some stone of p lies on a five.
HasFive(board, p) ==
  \E m \in NCells(PyLen(board)) : board[m[1]][m[2]] = p /\ has_five(board, m[1], m[2], p)

\* C34: _check_winner, check_win and check_winner_board without a hint
\* return the same winner on every board, and check_winner_board with a
\* last-move hint returns that winner too whenever at most one player has
\* five in a row.
C34_WinnerChecksAgree ==
  (probe.pc = "done" /\ probe.fn = "winners") =>
    /\ probe.minimax = probe.advanced
    /\ probe.advanced = probe.rules
    /\ ~(HasFive(probe.board, "X") /\ HasFive(probe.board, "O"))
         => probe.hinted = probe.rules

\* A board with one five, asked with a hint on a stone of the five.
C34_Witness ==
  /\ probe.pc = "done"
  /\ probe.fn = "winners"
  /\ probe.rules = "X"
  /\ probe.minimax = "X"
  /\ probe.hinted = "X"
  /\ ~HasFive(probe.board, "O")
  /\ probe.board[probe.last[1]][probe.last[2]] = "X"

\* On a board of the engine's own size the three checks agree.
C34_AgreeOnEngineSize ==
  (probe.pc = "done" /\ probe.fn = "winners" /\ PyLen(probe.board) = BOARD_SIZE) =>
    /\ probe.minimax = probe.advanced
    /\ probe.advanced = probe.rules

\* With a five for each player the hint decides: the scan finds "O" first,
\* the hinted check "X".
C34_HintDecides ==
  /\ probe.pc = "done"
  /\ probe.fn = "winners"
  /\ probe.rules = "O"
  /\ probe.hinted = "X"

(* ------------------- the specification of the searches ----------------- *)
SearchInit ==
  /\ engine = "none"
  /\ ses = [s \in Callers |-> Idle]
  /\ _transposition_table = <<>>
  /\ _history_table = ZeroHistory
  /\ _killer_moves = <<>>
  /\ _global_ai = NewAI
  /\ probe \in KeyProbes \cup OrderProbes \cup NodeProbes \cup TableProbes
             \cup WonProbes \cup AdvWonProbes \cup AspirationProbes
             \cup AdvOrderProbes \cup QuietProbes
  /\ PvPIdle

SearchNext ==
  \/ ChildKeyCall
  \/ OrderCall
  \/ NodeCall
  \/ TableProbeCall
  \/ EarlierCall
  \/ WonNodeCall
  \/ AdvWonCall
  \/ AspirationCall
  \/ AdvOrderCall
  \/ QuietCall

SearchSpec == SearchInit /\ [][SearchNext]_vars

(* ------------------- the PvP server: playing a game -------------------- *)
\* models.py line 582: the default of PvPGame.turn_timeout_sec, in seconds.
TURN_TIMEOUT == 30

\* models.py lines 534-583, the columns the move view, the resign view and
\* the timeout worker read or write.
PlayedGame(p1, p2, status, result, winning_line, board_size, turn, started_at, last_move_at, ended_at) ==
  [p1 |-> p1, p2 |-> p2, status |-> status, result |-> result,
   winning_line |-> winning_line, board_size |-> board_size, turn |-> turn,
   started_at |-> started_at, last_move_at |-> last_move_at, ended_at |-> ended_at,
   turn_timeout_sec |-> TURN_TIMEOUT]

\* models.py lines 602-620.
PvPMove(game, move_number, player, row, col) ==
  [game |-> game, move_number |-> move_number, player |-> player, row |-> row, col |-> col]

\* The tables of a played game.
GameDatabase(games, moves, locks) == [PvPGame |-> games, PvPMove |-> moves, locks |-> locks]

\* PvPMove.objects.filter(game=game): the ids of the game's moves.
MovesOf(moves, game_id) == {i \in DOMAIN moves : moves[i].game = game_id}

\* _build_pvp_board (views_pvp_game.py lines 30-35).  The moves are written
\* in the order of move_number; a cell holds the player of its last move.
_build_pvp_board(moves, game_id, n) ==
  [r \in 0 .. (n - 1) |->
     [c \in 0 .. (n - 1) |->
        LET on == {i \in MovesOf(moves, game_id) : moves[i].row = r /\ moves[i].col = c}
        IN IF on = {} THEN ""
           ELSE moves[CHOOSE i \in on :
                        \A j \in on : moves[j].move_number <= moves[i].move_number].player]]

\* The timeout worker is one more process beside the workers of the server.
TimeoutWorker == 0

\* An UPDATE of rows another transaction has read with select_for_update()
\* waits until that transaction ends.
UpdateWaits(w, table, ids) == ~select_for_update(w, table, ids)

\* A view that holds no object returns at once.
GameRespond(w, view, user, arg, status, body) ==
  req' = [req EXCEPT ![w] = Response(view, user, arg, <<>>, status, body)]

\* PvPGameMoveView.post, lines 87-103: row and col are integers here; the
\* game is read with select_for_update(), a missing game is answered 404.
MoveBegin(w, user, game_id, row, col) ==
  /\ CanServe(w)
  /\ served' = served + 1
  /\ IF game_id \notin DOMAIN db.PvPGame
       THEN /\ GameRespond(w, "PvPGameMoveView", user, <<game_id, row, col>>, 404,
                           [detail |-> "Game not found"])
            /\ db' = db
       ELSE /\ select_for_update(w, "PvPGame", {game_id})
            /\ db' = [db EXCEPT !.locks = Locked(w, "PvPGame", {game_id})]
            /\ req' = [req EXCEPT ![w] = Request("move", "PvPGameMoveView", user,
                                                 <<game_id, row, col>>,
                                                 db.PvPGame[game_id], 0, <<>>)]
  /\ UNCHANGED now
  /\ UNCHANGED nonPvPVars

\* The move view leaves its transaction: its rows are committed, its locks
\* released.
MoveReturn(w, games, moves, status, body) ==
  /\ db' = GameDatabase(games, moves, Released(w, db.locks))
  /\ req' = [req EXCEPT ![w] = Response(req[w].view, req[w].user, req[w].arg,
                                        req[w].obj, status, body)]
  /\ UNCHANGED <<now, served>>
  /\ UNCHANGED nonPvPVars

\* A save after a move that leaves the turn with the player who moved.
GameKeepsTurn(game, role, verdict) == [game EXCEPT !.last_move_at = now]

\* Lines 147-172: the row after the verdict on the board with the new move;
\* save(update_fields=...) writes the columns named here.
GameAfterMove(game, role, verdict) ==
  IF verdict.winner # "" \/ verdict.draw
    THEN [game EXCEPT !.status = "finished",
                      !.ended_at = now,
                      !.result = IF verdict.winner = "X" THEN "p1_win"
                                 ELSE IF verdict.winner = "O" THEN "p2_win"
                                 ELSE "draw",
                      !.winning_line = IF verdict.winner # "" THEN verdict.winning_line
                                       ELSE <<>>,
                      !.last_move_at = now]
    ELSE [game EXCEPT !.turn = IF role = "X" THEN "O" ELSE "X",
                      !.last_move_at = now]

\* PvPGameMoveView.post, lines 105-172.
MoveFinish(w) ==
  /\ req[w].pc = "move"
  /\ LET game == req[w].obj
         user == req[w].user
         game_id == req[w].arg[1]
         row == req[w].arg[2]
         col == req[w].arg[3]
         role == _role_for_user(game, user)
         mine == MovesOf(db.PvPMove, game_id)
         move == PvPMove(game_id, Cardinality(mine) + 1, role, row, col)
         moves == Append(db.PvPMove, move)
     IN  IF game.status # "active"
           THEN MoveReturn(w, db.PvPGame, db.PvPMove, 409, [detail |-> "Game already ended"])
         ELSE IF row < 0 \/ col < 0 \/ row >= game.board_size \/ col >= game.board_size
           THEN MoveReturn(w, db.PvPGame, db.PvPMove, 400, [detail |-> "Out of bounds"])
         ELSE IF role = ""
           THEN MoveReturn(w, db.PvPGame, db.PvPMove, 403, [detail |-> "Not a participant"])
         ELSE IF game.turn # role
           THEN MoveReturn(w, db.PvPGame, db.PvPMove, 409, [detail |-> "Not your turn"])
         ELSE IF \E i \in mine : db.PvPMove[i].row = row /\ db.PvPMove[i].col = col
           THEN MoveReturn(w, db.PvPGame, db.PvPMove, 409,
                           [detail |-> "Cell already occupied"])
         ELSE IF \E i \in mine : db.PvPMove[i].move_number = move.move_number
           THEN MoveReturn(w, db.PvPGame, db.PvPMove, 409,
                           [detail |-> "Move rejected (duplicate)"])
         ELSE \E verdict \in {check_winner_board(
                                _build_pvp_board(moves, game_id, game.board_size),
                                WIN_LEN, <<row, col>>)} :
                MoveReturn(w,
                           [db.PvPGame EXCEPT ![game_id] = GameAfterMove(@, role, verdict)],
                           moves, 200, [ok |-> TRUE, move_number |-> move.move_number])

\* PvPGameResignView.post, lines 267-277: the game is read without a lock
\* and outside a transaction.  The users of the model are not staff.
ResignBegin(w, user, game_id) ==
  /\ CanServe(w)
  /\ served' = served + 1
  /\ IF game_id \notin DOMAIN db.PvPGame
       THEN GameRespond(w, "PvPGameResignView", user, <<game_id>>, 404,
                        [detail |-> "Game not found"])
     ELSE IF _role_for_user(db.PvPGame[game_id], user) = ""
       THEN GameRespond(w, "PvPGameResignView", user, <<game_id>>, 403,
                        [detail |-> "Forbidden"])
     ELSE IF db.PvPGame[game_id].status # "active"
       THEN GameRespond(w, "PvPGameResignView", user, <<game_id>>, 409,
                        [detail |-> "Game not active"])
     ELSE req' = [req EXCEPT ![w] = Request("resign", "PvPGameResignView", user,
                                            <<game_id>>, db.PvPGame[game_id], 0, <<>>)]
  /\ UNCHANGED <<db, now>>
  /\ UNCHANGED nonPvPVars

\* PvPGameResignView.post, lines 279-303: save(update_fields=[status,
\* ended_at, result, winning_line]) writes these four columns of the row.
ResignSave(w) ==
  /\ req[w].pc = "resign"
  /\ ~UpdateWaits(w, "PvPGame", {req[w].arg[1]})
  /\ LET role == _role_for_user(req[w].obj, req[w].user)
         result == IF role = "X" THEN "p2_win" ELSE "p1_win"
     IN  /\ db' = [db EXCEPT !.PvPGame[req[w].arg[1]] =
                      [@ EXCEPT !.status = "finished", !.ended_at = now,
                                !.result = result, !.winning_line = <<>>]]
         /\ req' = [req EXCEPT ![w] = Response(req[w].view, req[w].user, req[w].arg,
                                               req[w].obj, 200,
                                               [ok |-> TRUE, result |-> result])]
  /\ UNCHANGED <<now, served>>
  /\ UNCHANGED nonPvPVars

\* pvp_timeout_worker.py lines 14-15: the worker reads the clock and the
\* active games; arg is the instant, obj the rows as they were read.
TimeoutScan ==
  /\ req[TimeoutWorker].pc \in {"idle", "done"}
  /\ LET active == {g \in DOMAIN db.PvPGame : db.PvPGame[g].status = "active"}
     IN req' = [req EXCEPT ![TimeoutWorker] =
                  Request("timeout", "pvp_timeout_worker", NULL, <<now>>,
                          [g \in active |-> db.PvPGame[g]], 0, <<>>)]
  /\ UNCHANGED <<db, now, served>>
  /\ UNCHANGED nonPvPVars

\* Lines 18-19: the game has timed out at the instant the worker read.
TimedOut(g, at) ==
  (at - (IF g.last_move_at # NULL THEN g.last_move_at ELSE g.started_at)) > g.turn_timeout_sec

\* Lines 17-35, one turn of the loop over the games that were read: a game
\* that has timed out is saved, every column from the row as it was read.
TimeoutGame ==
  /\ req[TimeoutWorker].pc = "timeout"
  /\ DOMAIN req[TimeoutWorker].obj # {}
  /\ LET id == First(DOMAIN req[TimeoutWorker].obj)
         g == req[TimeoutWorker].obj[id]
         at == req[TimeoutWorker].arg[1]
         rest == [i \in DOMAIN req[TimeoutWorker].obj \ {id} |-> req[TimeoutWorker].obj[i]]
     IN  /\ IF TimedOut(g, at)
              THEN /\ ~UpdateWaits(TimeoutWorker, "PvPGame", {id})
                   /\ db' = [db EXCEPT !.PvPGame[id] =
                                [g EXCEPT !.status = "finished", !.ended_at = at,
                                          !.result = IF g.turn = "X" THEN "p2_win"
                                                     ELSE "p1_win"]]
              ELSE db' = db
         /\ req' = [req EXCEPT ![TimeoutWorker].obj = rest]
  /\ UNCHANGED <<now, served>>
  /\ UNCHANGED nonPvPVars

\* Line 37: the loop is through; the worker sleeps until its next scan.
TimeoutSleep ==
  /\ req[TimeoutWorker].pc = "timeout"
  /\ DOMAIN req[TimeoutWorker].obj = {}
  /\ req' = [req EXCEPT ![TimeoutWorker].pc = "done"]
  /\ UNCHANGED <<db, now, served>>
  /\ UNCHANGED nonPvPVars

\* The games of the runs, between the first and the second user; the third
\* user takes no part.  A game just started; a game after eight moves, "X"
\* on (0,0)..(0,3) and "O" on (1,0)..(1,3), where either player completes
\* a five with the next stone; a game on a board of one cell, which the
\* first move fills.
StartedGame == PlayedGame(1, 2, "active", "ongoing", <<>>, WIN_LEN, "X", 0, NULL, NULL)
EightMoves ==
  [i \in 1 .. 8 |-> PvPMove(1, i, IF i % 2 = 1 THEN "X" ELSE "O",
                            IF i % 2 = 1 THEN 0 ELSE 1, (i - 1) \div 2)]
OneCellGame == PlayedGame(1, 2, "active", "ongoing", <<>>, 1, "X", 0, NULL, NULL)
PlayedGames ==
  {GameDatabase(<<StartedGame>>, <<>>, {}),
   GameDatabase(<<[StartedGame EXCEPT !.last_move_at = 0]>>, EightMoves, {}),
   GameDatabase(<<OneCellGame>>, <<>>, {})}

\* The cells of the move requests: a corner, the cell that completes the
\* five of "X" after the eight moves, and a cell outside the board.
MoveCells == {<<0, 0>>, <<0, 4>>, <<WIN_LEN, 0>>}

\* The move requests <<user, game_id, cell>>: the two players on every cell,
\* the third user, and a request for a game that does not exist.
MoveRequests ==
  ({1, 2} \X {1} \X MoveCells) \cup {<<3, 1, <<0, 4>>>>, <<1, 2, <<0, 0>>>>}

\* The resign requests <<user, game_id>>.
ResignRequests == {<<1, 1>>, <<2, 1>>, <<3, 1>>, <<1, 2>>}

\* The instants of a game: its start, and a second after the turn has
\* timed out.
GameInstants == {t \in Instants : t = 0 \/ (t > TURN_TIMEOUT /\ t < INVITE_TTL)}

GameInit ==
  /\ EnginesIdle
  /\ db \in PlayedGames
  /\ req = [w \in Workers \cup {TimeoutWorker} |-> NoRequest]
  /\ now = 0
  /\ served = 0

GameNext ==
  \/ \E w \in Workers, r \in MoveRequests : MoveBegin(w, r[1], r[2], r[3][1], r[3][2])
  \/ \E w \in Workers : MoveFinish(w)
  \/ \E w \in Workers, r \in ResignRequests : ResignBegin(w, r[1], r[2])
  \/ \E w \in Workers : ResignSave(w)
  \/ TimeoutScan
  \/ TimeoutGame
  \/ TimeoutSleep
  \/ ClockTick /\ now' \in GameInstants

GameSpec == GameInit /\ [][GameNext]_vars

(* ------------------- C35: a finished game stays as it is --------------- *)
\* C35: once a PvP game is FINISHED, no step of the move view, the resign
\* view or the timeout worker changes its status, result or winning_line.
C35_FinishedIsFinal ==
  [][\A g \in DOMAIN db.PvPGame :
       db.PvPGame[g].status = "finished" =>
         /\ db'.PvPGame[g].status = db.PvPGame[g].status
         /\ db'.PvPGame[g].result = db.PvPGame[g].result
         /\ db'.PvPGame[g].winning_line = db.PvPGame[g].winning_line]_vars

\* The move view alone keeps a finished game: a move request on it is
\* answered 409 and writes nothing.
C35_MoveOnFinishedRefused ==
  \A w \in Workers :
    (req[w].pc = "done" /\ req[w].view = "PvPGameMoveView" /\ req[w].status = 200) =>
      req[w].obj.status = "active"

(* ------------------- C36: the moves of a game -------------------------- *)
\* The moves of game g are numbered 1..k, "X" has the odd and "O" the even
\* numbers, and the cells are on the board and pairwise distinct.
MovesInOrder(g) ==
  LET mine == MovesOf(db.PvPMove, g)
      move(i) == db.PvPMove[i]
  IN /\ \A n \in 1 .. Cardinality(mine) :
          Cardinality({i \in mine : move(i).move_number = n}) = 1
     /\ \A i \in mine :
          /\ move(i).player = (IF move(i).move_number % 2 = 1 THEN "X" ELSE "O")
          /\ in_bounds(move(i).row, move(i).col, db.PvPGame[g].board_size)
     /\ \A i, j \in mine :
          (move(i).row = move(j).row /\ move(i).col = move(j).col) => i = j

\* The move request worker w is about to answer must be refused: the user
\* takes no part, is not on turn, the cell is occupied or the game not ACTIVE.
MustRefuse(w) ==
  LET game == db.PvPGame[req[w].arg[1]]
      role == _role_for_user(game, req[w].user)
  IN \/ role = ""
     \/ game.turn # role
     \/ game.status # "active"
     \/ \E i \in MovesOf(db.PvPMove, req[w].arg[1]) :
          db.PvPMove[i].row = req[w].arg[2] /\ db.PvPMove[i].col = req[w].arg[3]

\* A step in which the move view answers a request that must be refused:
\* the answer is a refusal, and the moves and the turn stay as they are.
RefusedMoveChangesNothing ==
  \A w \in Workers :
    (req[w].pc = "move" /\ req'[w].pc = "done" /\ MustRefuse(w)) =>
      /\ req'[w].status \in {400, 403, 409}
      /\ db'.PvPMove = db.PvPMove
      /\ db'.PvPGame[req[w].arg[1]].turn = db.PvPGame[req[w].arg[1]].turn

\* C36: in every PvP game the accepted moves alternate X, O, X, ... from X,
\* carry the numbers 1..k and occupy distinct cells of the board; a move by
\* a non-participant, by the player not on turn, on an occupied cell or on
\* a game that is not ACTIVE is refused and changes neither moves nor turn.
C36_MovesAlternate ==
  /\ [](\A g \in DOMAIN db.PvPGame : MovesInOrder(g))
  /\ [][RefusedMoveChangesNothing]_vars

\* "X" and "O" have moved in turn, and a third request was refused with 409.
C36_Witness ==
  /\ Len(db.PvPMove) = 2
  /\ db.PvPMove[1].player = "X"
  /\ db.PvPMove[2].player = "O"
  /\ \E w \in Workers :
       /\ req[w].pc = "done"
       /\ req[w].view = "PvPGameMoveView"
       /\ req[w].status = 409

(* ------------------- C37: one waiting entry per user and mode ---------- *)
\* C37: a user has at most one WAITING queue entry per mode at any time,
\* also when two join requests of the same user run concurrently.
C37_OneWaitingEntry ==
  \A user \in Users, mode \in QueueModes : Cardinality(WaitingOf(user, mode)) <= 1

(* ------------------- C38: refused rematch requests --------------------- *)
\* Worker w is about to leave a rematch view for the game it loaded.
RematchReturns(w) ==
  /\ req[w].pc \in {"rematch_request", "rematch_accept"}
  /\ req'[w].pc = "done"

\* The step of worker w writes no game and no rematch request.
RematchUntouched ==
  /\ db'.PvPGame = db.PvPGame
  /\ db'.RematchRequest = db.RematchRequest

\* The user is one of the two players of the game.
Participant(game, user) == user = game.p1 \/ user = game.p2

\* The answers of the rematch views to the requests the claim names.
RematchRefusals ==
  \A w \in Workers :
    RematchReturns(w) =>
      LET game == db.PvPGame[req[w].arg]
          user == req[w].user
          pending == PendingRematch(req[w].arg)
          accept == req[w].pc = "rematch_accept"
      IN  /\ ~Participant(game, user) => req'[w].status = 403
          /\ (accept /\ Participant(game, user) /\ pending = {})
               => req'[w].status = 409
          /\ (accept /\ Participant(game, user) /\ pending # {}
                /\ db.RematchRequest[First(pending)].requester = user)
               => req'[w].status = 409
          /\ req'[w].status # 200 => RematchUntouched
          /\ Len(db'.PvPGame) > Len(db.PvPGame) =>
               /\ accept
               /\ Participant(game, user)
               /\ pending # {}
               /\ db.RematchRequest[First(pending)].requester # user

\* C38: a rematch is created only by the other participant: an accept by
\* the requester of the pending request is refused with 409, an accept or a
\* request by a non-participant with 403, an accept with no pending request
\* with 409; a refusal creates no game and changes no RematchRequest; and a
\* game has at most one PENDING rematch request at any time.
C38_RematchRefusals ==
  /\ [](\A g \in DOMAIN db.PvPGame : Cardinality(PendingRematch(g)) <= 1)
  /\ [][RematchRefusals]_vars

\* The requester's own accept was refused with 409 and a non-participant's
\* accept with 403, while the request stays pending and no game was added.
C38_Witness ==
  /\ req[1].pc = "done" /\ req[1].view = "PvPRematchAcceptView" /\ req[1].status = 409
  /\ req[2].pc = "done" /\ req[2].view = "PvPRematchAcceptView" /\ req[2].status = 403
  /\ req[1].arg = 1 /\ req[2].arg = 1
  /\ PendingRematch(1) # {}
  /\ db.RematchRequest[First(PendingRematch(1))].requester = req[1].user
  /\ Len(db.PvPGame) = Len(RematchGames)

(* ------------------- game/gemini_engine.py, gemini_engine2.py ---------- *)
\* gemini_engine.py line 52: the default of max_retries.
MAX_RETRIES == 3

\* The values a JSON answer gives for "row" and "col": an integer, a float
\* (v is its integer part), a string of digits, a string that is no number,
\* null, or no such key.
JsonValue(t, v) == [t |-> t, v |-> v]
JsonTypes == {"int", "float", "digits", "word", "null", "missing"}

\* The text of an answer: a JSON object with "row" and "col", a JSON array,
\* or text that is no JSON; fenced when it is wrapped in ```json ... ```.
JsonText(fenced, json, row, col) == [fenced |-> fenced, json |-> json, row |-> row, col |-> col]

\* _clean_json_text (gemini_engine.py lines 384-393, gemini_engine2.py lines
\* 19-27) removes the fences around the text.
_clean_json_text(text) == [text EXCEPT !.fenced = FALSE]

\* json.loads raises JSONDecodeError on fenced text and on text that is no JSON.
JSONDecodeError(text) == text.fenced \/ text.json = "invalid"

\* int(value): TypeError on null, ValueError on a string that is no number.
IntRaises(value) == value.t \in {"word", "null"}

\* _parse_and_validate_move (lines 262-300): the cell of the answer, None
\* for an answer the function rejects; raised when an exception leaves it.
_parse_and_validate_move(raw_json, board) ==
  LET n == PyLen(board)
      rejected == [raised |-> FALSE, move |-> None]
  IN IF JSONDecodeError(raw_json) THEN rejected
     ELSE IF raw_json.json # "object" THEN rejected
     ELSE IF raw_json.row.t = "missing" \/ raw_json.col.t = "missing" THEN rejected
     ELSE IF IntRaises(raw_json.row) \/ IntRaises(raw_json.col) THEN rejected
     ELSE IF ~in_bounds(raw_json.row.v, raw_json.col.v, n) THEN rejected
     ELSE IF board[raw_json.row.v][raw_json.col.v] # "" THEN rejected
     ELSE [raised |-> FALSE, move |-> <<raw_json.row.v, raw_json.col.v>>]

\* has_neighbor_stone (lines 338-347).
has_neighbor_stone(board, r, c, ai_symbol, human_symbol) ==
  \E dr \in {-1, 0, 1}, dc \in {-1, 0, 1} :
    /\ ~(dr = 0 /\ dc = 0)
    /\ in_bounds(r + dr, c + dc, PyLen(board))
    /\ board[r + dr][c + dc] \in {ai_symbol, human_symbol}

\* _select_fallback_move (lines 305-367): the moves it can return;
\* random.choice returns any element of its list.
_select_fallback_move(board, ai_symbol, human_symbol) ==
  LET n == PyLen(board)
      empty_cells == {m \in NCells(n) : board[m[1]][m[2]] = ""}
      candidate_cells == {m \in empty_cells :
                            has_neighbor_stone(board, m[1], m[2], ai_symbol, human_symbol)}
      center == <<n \div 2, n \div 2>>
  IN IF empty_cells = {} THEN {None}
     ELSE IF empty_cells = NCells(n) THEN {center}
     ELSE IF candidate_cells # {} THEN candidate_cells
     ELSE IF board[center[1]][center[2]] = "" THEN {center}
     ELSE empty_cells

\* The fallback of gemini_engine2.py (lines 34-40 and 87-93): the first
\* empty cell in row-major order, or None.
FirstEmptyCell(board) ==
  LET n == PyLen(board)
      empty_cells == {m \in NCells(n) : board[m[1]][m[2]] = ""}
  IN IF empty_cells = {} THEN None
     ELSE CHOOSE m \in empty_cells :
            \A x \in empty_cells : m[1] * n + m[2] <= x[1] * n + x[2]

\* What one call of the model does: it answers with a text, raises
\* ResourceExhausted or GoogleAPICallError, or raises another exception.
ModelAnswers ==
  {JsonText(f, "object", JsonValue("int", m[1]), JsonValue("int", m[2])) :
     f \in BOOLEAN, m \in {<<0, 0>>, <<2, 2>>, <<BOARD_SIZE, 0>>, <<-1, 3>>}}
    \cup {JsonText(FALSE, "object", JsonValue(t, 2), JsonValue("int", 2)) : t \in JsonTypes}
    \cup {JsonText(FALSE, "object", JsonValue("int", 2), JsonValue("missing", 0)),
          JsonText(FALSE, "array", JsonValue("missing", 0), JsonValue("missing", 0)),
          JsonText(FALSE, "invalid", JsonValue("missing", 0), JsonValue("missing", 0))}
ModelOutcomes ==
  {[kind |-> "text", text |-> t] : t \in ModelAnswers}
    \cup {[kind |-> k, text |-> JsonText(FALSE, "invalid", JsonValue("missing", 0),
                                         JsonValue("missing", 0))] :
            k \in {"ResourceExhausted", "GoogleAPICallError", "Exception"}}

\* The boards of the calls: empty, full, with a few stones, with one empty
\* cell, and the empty list.
GeminiBoards == {EmptyBoard, FullBoard, XThreat, Dense(1), <<>>}

\* get_best_move is called on an instance with or without an API key;
\* gemini_best_move of gemini_engine2.py with or without GOOGLE_API_KEY.
GeminiProbes ==
  {[pc |-> "call", fn |-> f, board |-> b, enabled |-> e, max_retries |-> k, attempt |-> 0] :
     f \in {"get_best_move", "gemini_best_move"}, b \in GeminiBoards,
     e \in BOOLEAN, k \in {0, MAX_RETRIES}}

\* The call returns move.
GeminiReturn(move) ==
  /\ probe' = [pc |-> "done", fn |-> probe.fn, board |-> probe.board,
               enabled |-> probe.enabled, max_retries |-> probe.max_retries,
               attempt |-> probe.attempt, move |-> move]
  /\ UNCHANGED <<engine, ses, _transposition_table, _history_table, _killer_moves, _global_ai>>
  /\ UNCHANGED pvpVars

\* The call returns what _select_fallback_move chooses.
GeminiFallback ==
  \E move \in _select_fallback_move(probe.board, "O", "X") : GeminiReturn(move)

\* get_best_move, lines 101-108: a board that is empty or malformed returns
\* None, an instance without a key the fallback; otherwise the model is called.
GetBestMoveBegin ==
  /\ probe.pc = "call"
  /\ probe.fn = "get_best_move"
  /\ IF PyLen(probe.board) = 0
       THEN GeminiReturn(None)
     ELSE IF ~probe.enabled
       THEN GeminiFallback
     ELSE /\ probe' = [probe EXCEPT !.pc = "attempt"]
          /\ UNCHANGED <<engine, ses, _transposition_table, _history_table,
                         _killer_moves, _global_ai>>
          /\ UNCHANGED pvpVars

\* _call_model_with_retry, lines 192-230: one turn of the loop.  An answer
\* is returned to get_best_move; ResourceExhausted and GoogleAPICallError
\* start the next attempt; any other exception leaves the function and is
\* caught by get_best_move (lines 128-131), which returns the fallback.
ModelAttempt ==
  /\ probe.pc = "attempt"
  /\ probe.attempt < probe.max_retries
  /\ \E outcome \in ModelOutcomes :
       CASE outcome.kind = "text" ->
              /\ probe' = [pc |-> "parse", fn |-> probe.fn, board |-> probe.board,
                           enabled |-> probe.enabled, max_retries |-> probe.max_retries,
                           attempt |-> probe.attempt + 1, text |-> outcome.text]
              /\ UNCHANGED <<engine, ses, _transposition_table, _history_table,
                             _killer_moves, _global_ai>>
              /\ UNCHANGED pvpVars
         [] outcome.kind \in {"ResourceExhausted", "GoogleAPICallError"} ->
              /\ probe' = [probe EXCEPT !.attempt = @ + 1]
              /\ UNCHANGED <<engine, ses, _transposition_table, _history_table,
                             _killer_moves, _global_ai>>
              /\ UNCHANGED pvpVars
         [] OTHER ->
              \E move \in _select_fallback_move(probe.board, "O", "X") :
                /\ probe' = [pc |-> "done", fn |-> probe.fn, board |-> probe.board,
                             enabled |-> probe.enabled, max_retries |-> probe.max_retries,
                             attempt |-> probe.attempt + 1, move |-> move]
                /\ UNCHANGED <<engine, ses, _transposition_table, _history_table,
                               _killer_moves, _global_ai>>
                /\ UNCHANGED pvpVars

\* _call_model_with_retry, lines 232-234: every attempt has failed, the last
\* exception (or RuntimeError) is raised and get_best_move returns the fallback.
RetriesExhausted ==
  /\ probe.pc = "attempt"
  /\ probe.attempt >= probe.max_retries
  /\ GeminiFallback

\* get_best_move, lines 115-126: the answer is cleaned, parsed and
\* validated; a rejected answer returns the fallback.
ParseAnswer ==
  /\ probe.pc = "parse"
  /\ LET parsed == _parse_and_validate_move(_clean_json_text(probe.text), probe.board)
     IN IF parsed.raised \/ parsed.move = None
          THEN \E move \in _select_fallback_move(probe.board, "O", "X") :
                 /\ probe' = [pc |-> "done", fn |-> probe.fn, board |-> probe.board,
                              enabled |-> probe.enabled, max_retries |-> probe.max_retries,
                              attempt |-> probe.attempt, move |-> move]
                 /\ UNCHANGED <<engine, ses, _transposition_table, _history_table,
                                _killer_moves, _global_ai>>
                 /\ UNCHANGED pvpVars
          ELSE /\ probe' = [pc |-> "done", fn |-> probe.fn, board |-> probe.board,
                            enabled |-> probe.enabled, max_retries |-> probe.max_retries,
                            attempt |-> probe.attempt, move |-> parsed.move]
               /\ UNCHANGED <<engine, ses, _transposition_table, _history_table,
                              _killer_moves, _global_ai>>
               /\ UNCHANGED pvpVars

\* gemini_best_move of gemini_engine2.py, lines 30-93: without a key the
\* first empty cell; otherwise one call of the model, whose answer is
\* returned as (int(row), int(col)), and the first empty cell on any exception.
gemini_best_move(board, enabled, outcome) ==
  IF ~enabled THEN FirstEmptyCell(board)
  ELSE IF outcome.kind # "text" THEN FirstEmptyCell(board)
  ELSE IF JSONDecodeError(_clean_json_text(outcome.text)) THEN FirstEmptyCell(board)
  ELSE IF outcome.text.json # "object" THEN FirstEmptyCell(board)
  ELSE IF outcome.text.row.t = "missing" \/ outcome.text.col.t = "missing"
    THEN FirstEmptyCell(board)
  ELSE IF IntRaises(outcome.text.row) \/ IntRaises(outcome.text.col)
    THEN FirstEmptyCell(board)
  ELSE <<outcome.text.row.v, outcome.text.col.v>>

GeminiBestMoveCall ==
  /\ probe.pc = "call"
  /\ probe.fn = "gemini_best_move"
  /\ \E outcome \in ModelOutcomes :
       /\ probe' = [pc |-> "done", fn |-> probe.fn, board |-> probe.board,
                    enabled |-> probe.enabled, max_retries |-> probe.max_retries,
                    attempt |-> IF probe.enabled THEN 1 ELSE 0,
                    move |-> gemini_best_move(probe.board, probe.enabled, outcome)]
       /\ UNCHANGED <<engine, ses, _transposition_table, _history_table,
                      _killer_moves, _global_ai>>
       /\ UNCHANGED pvpVars

GeminiInit ==
  /\ engine = "none"
  /\ ses = [s \in Callers |-> Idle]
  /\ _transposition_table = <<>>
  /\ _history_table = ZeroHistory
  /\ _killer_moves = <<>>
  /\ _global_ai = NewAI
  /\ probe \in GeminiProbes
  /\ PvPIdle

GeminiNext ==
  \/ GetBestMoveBegin
  \/ ModelAttempt
  \/ RetriesExhausted
  \/ ParseAnswer
  \/ GeminiBestMoveCall

GeminiSpec == GeminiInit /\ [][GeminiNext]_vars

(* ------------------- C39: the fallback of the LLM move source ---------- *)
\* The board has an empty cell.
HasEmptyCell(board) == \E m \in NCells(PyLen(board)) : board[m[1]][m[2]] = ""

\* The move is an empty cell of the board, or None on a board without one.
SafeMove(board, move) ==
  IF move = None THEN ~HasEmptyCell(board)
  ELSE in_bounds(move[1], move[2], PyLen(board)) /\ board[move[1]][move[2]] = ""

\* C39: whatever the model call does, the move the LLM-backed move source
\* returns is an in-bounds empty cell of the input board, it returns no move
\* only when the board has no empty cell, and it calls the model at most
\* max_retries times.
C39_LlmMoveIsLegal ==
  probe.pc = "done" =>
    /\ SafeMove(probe.board, probe.move)
    /\ probe.fn = "get_best_move" => probe.attempt <= probe.max_retries

\* GeminiGomokuAI.get_best_move alone keeps the property.
C39_GetBestMoveIsLegal ==
  (probe.pc = "done" /\ probe.fn = "get_best_move") =>
    /\ SafeMove(probe.board, probe.move)
    /\ probe.attempt <= probe.max_retries

\* get_best_move fell back after the last of max_retries failed attempts.
C39_RetriedToTheEnd ==
  /\ probe.pc = "done"
  /\ probe.fn = "get_best_move"
  /\ probe.attempt = MAX_RETRIES
  /\ probe.move # None
====
